---- MODULE Spec2Model ----
(***************************************************************************)
(* Model of the large-document pipeline of simple-page-saver's backend:    *)
(* token budget (token_manager.py), chunking engine (chunking.py),          *)
(* parallel chunk processor (parallel_processor.py) and the orchestration  *)
(* in AIConverter.convert_large_html (ai_converter.py).                     *)
(*                                                                         *)
(* Texts are sequences of one-character strings.  Chunk indices are        *)
(* 0-based as in the code; positions in TLA+ sequences are 1-based, so the *)
(* chunk with chunk_index i sits at position i + 1.                        *)
(***************************************************************************)
EXTENDS Integers, Sequences, FiniteSets, TLC

(***************************************************************************)
(* Bounds of the model.                                                    *)
(***************************************************************************)
MaxLen == 6          \* longest text handed to the chunker on its own
MaxHtmlLen == 4      \* longest html handed to convert_large_html
MaxChunks == 3       \* most chunks handed to process_chunks on its own
MaxWorkers == 2      \* largest worker pool

NL == "\n"
SP == " "
DOT == "."
Chars == {"a", SP, DOT, NL}

Texts(n) == UNION {[1..k -> Chars] : k \in 0..n}

\* Python None where the code holds None in a slot the model reads, and
\* None in a slot that otherwise holds a text.
NoneVal == "None"
NoneText == <<NoneVal>>

(***************************************************************************)
(* Python arithmetic.                                                      *)
(***************************************************************************)
\* int(n / d) for d > 0: truncation toward zero.
IntTrunc(n, d) == IF n >= 0 THEN n \div d ELSE -((-n) \div d)

\* math.ceil(a / b) for b # 0.
CeilDiv(a, b) == IF b > 0 THEN -((-a) \div b) ELSE -(a \div (-b))

Min2(a, b) == IF a <= b THEN a ELSE b
Max2(a, b) == IF a >= b THEN a ELSE b

RECURSIVE SumSeq(_)
SumSeq(s) == IF s = <<>> THEN 0 ELSE Head(s) + SumSeq(Tail(s))

RECURSIVE MinSeq(_)
MinSeq(s) == IF Len(s) = 1 THEN s[1] ELSE Min2(s[1], MinSeq(Tail(s)))

RECURSIVE MaxSeq(_)
MaxSeq(s) == IF Len(s) = 1 THEN s[1] ELSE Max2(s[1], MaxSeq(Tail(s)))

(***************************************************************************)
(* TokenManager.count_tokens.  The code delegates to the tiktoken encoder  *)
(* of the model (cl100k_base when the model is unknown).  The encoder is   *)
(* an external library; it is modelled as the merge-free byte-level        *)
(* encoding: one token per character.                                      *)
(***************************************************************************)
count_tokens(text) == Len(text)

(***************************************************************************)
(* String helpers of the chunking strategies.                              *)
(***************************************************************************)
IsSpace(c) == c \in {SP, NL}

\* text.split('\n\n')
RECURSIVE SplitParaFrom(_, _, _)
SplitParaFrom(text, i, cur) ==
    IF i > Len(text) THEN <<cur>>
    ELSE IF i < Len(text) /\ text[i] = NL /\ text[i + 1] = NL
         THEN <<cur>> \o SplitParaFrom(text, i + 2, <<>>)
         ELSE SplitParaFrom(text, i + 1, Append(cur, text[i]))

SplitParagraphs(text) == SplitParaFrom(text, 1, <<>>)

\* first position >= i that holds no whitespace
RECURSIVE SkipSpace(_, _)
SkipSpace(text, i) ==
    IF i <= Len(text) /\ IsSpace(text[i]) THEN SkipSpace(text, i + 1) ELSE i

\* re.split(r'\.\s+', text)
RECURSIVE SplitSentFrom(_, _, _)
SplitSentFrom(text, i, cur) ==
    IF i > Len(text) THEN <<cur>>
    ELSE IF i < Len(text) /\ text[i] = DOT /\ IsSpace(text[i + 1])
         THEN <<cur>> \o SplitSentFrom(text, SkipSpace(text, i + 1), <<>>)
         ELSE SplitSentFrom(text, i + 1, Append(cur, text[i]))

SplitSentences(text) == SplitSentFrom(text, 1, <<>>)

\* text.split()
RECURSIVE SplitWordsFrom(_, _, _)
SplitWordsFrom(text, i, cur) ==
    IF i > Len(text) THEN (IF cur = <<>> THEN <<>> ELSE <<cur>>)
    ELSE IF IsSpace(text[i])
         THEN (IF cur = <<>> THEN <<>> ELSE <<cur>>) \o SplitWordsFrom(text, i + 1, <<>>)
         ELSE SplitWordsFrom(text, i + 1, Append(cur, text[i]))

SplitWords(text) == SplitWordsFrom(text, 1, <<>>)

\* sep.join(units)
RECURSIVE Join(_, _)
Join(units, sep) ==
    IF units = <<>> THEN <<>>
    ELSE IF Len(units) = 1 THEN units[1]
    ELSE units[1] \o sep \o Join(Tail(units), sep)

\* the chunk texts of a list of chunks given as lists of unit indices
JoinChunks(units, chunkUnits, sep) ==
    [k \in 1..Len(chunkUnits) |->
        Join([j \in 1..Len(chunkUnits[k]) |-> units[chunkUnits[k][j]]], sep)]

\* current_chunk[-n:] for n > 0
LastN(s, n) == SubSeq(s, Max2(1, Len(s) - n + 1), Len(s))

\* sum(count_tokens(u) for u in current_chunk), the chunk given by unit indices
UnitTokens(units, idxs) == SumSeq([j \in 1..Len(idxs) |-> count_tokens(units[idxs[j]])])

(***************************************************************************)
(* ParagraphChunkingStrategy.chunk / SentenceChunkingStrategy.chunk: the   *)
(* accumulation loop the two share.  A chunk is a list of unit indices;    *)
(* `cur` is current_chunk and curTok is current_tokens, ov is the overlap  *)
(* percentage in percent (overlap_percentage * 100).                       *)
(***************************************************************************)
\* The loop with the append after a close left out: the unit that closes a chunk is lost.
RECURSIVE AccumulateUnitsDropping(_, _, _, _, _, _, _)
AccumulateUnitsDropping(units, i, chunks, cur, curTok, maxTok, ov) ==
    IF i > Len(units) THEN (IF cur # <<>> THEN Append(chunks, cur) ELSE chunks)
    ELSE LET t == count_tokens(units[i])
             close == curTok + t > maxTok /\ cur # <<>>
             overlap_size == IntTrunc(Len(cur) * ov, 100)
             kept == IF ~close THEN cur
                     ELSE IF overlap_size > 0 THEN LastN(cur, overlap_size) ELSE <<>>
             keptTok == IF close THEN UnitTokens(units, kept) ELSE curTok
         IN  IF close
             THEN AccumulateUnitsDropping(units, i + 1, Append(chunks, cur),
                                          kept, keptTok, maxTok, ov)
             ELSE AccumulateUnitsDropping(units, i + 1, chunks,
                                          Append(kept, i), keptTok + t, maxTok, ov)

\* The loop with the overlap taken from the front of the closed chunk:
\* current_chunk[:overlap_size] in place of current_chunk[-overlap_size:].
RECURSIVE AccumulateUnitsCarryFirst(_, _, _, _, _, _, _)
AccumulateUnitsCarryFirst(units, i, chunks, cur, curTok, maxTok, ov) ==
    IF i > Len(units) THEN (IF cur # <<>> THEN Append(chunks, cur) ELSE chunks)
    ELSE LET t == count_tokens(units[i])
             close == curTok + t > maxTok /\ cur # <<>>
             overlap_size == IntTrunc(Len(cur) * ov, 100)
             kept == IF ~close THEN cur
                     ELSE IF overlap_size > 0 THEN SubSeq(cur, 1, overlap_size) ELSE <<>>
             keptTok == IF close THEN UnitTokens(units, kept) ELSE curTok
         IN  AccumulateUnitsCarryFirst(units, i + 1,
                             IF close THEN Append(chunks, cur) ELSE chunks,
                             Append(kept, i), keptTok + t, maxTok, ov)

RECURSIVE AccumulateUnits(_, _, _, _, _, _, _)
AccumulateUnits(units, i, chunks, cur, curTok, maxTok, ov) ==
    IF i > Len(units) THEN (IF cur # <<>> THEN Append(chunks, cur) ELSE chunks)
    ELSE LET t == count_tokens(units[i])
             close == curTok + t > maxTok /\ cur # <<>>
             overlap_size == IntTrunc(Len(cur) * ov, 100)
             kept == IF ~close THEN cur
                     ELSE IF overlap_size > 0 THEN LastN(cur, overlap_size) ELSE <<>>
             keptTok == IF close THEN UnitTokens(units, kept) ELSE curTok
         IN  AccumulateUnits(units, i + 1,
                             IF close THEN Append(chunks, cur) ELSE chunks,
                             Append(kept, i), keptTok + t, maxTok, ov)

\* The return value of the two strategies for the units they split the text
\* into, as lists of unit indices; <<>> stands for the None they return (no
\* break found, or a single chunk).
UnitChunks(units, maxTok, ov) ==
    LET chunks == AccumulateUnits(units, 1, <<>>, <<>>, 0, maxTok, ov)
    IN  IF Len(units) = 1 THEN <<>>
        ELSE IF Len(chunks) > 1 THEN chunks ELSE <<>>

ParagraphChunkUnits(text, maxTok, ov) == UnitChunks(SplitParagraphs(text), maxTok, ov)

ParagraphChunk(text, maxTok, ov) ==
    LET paragraphs == SplitParagraphs(text)
    IN  JoinChunks(paragraphs, UnitChunks(paragraphs, maxTok, ov), <<NL, NL>>)

SentenceChunkUnits(text, maxTok, ov) == UnitChunks(SplitSentences(text), maxTok, ov)

SentenceChunk(text, maxTok, ov) ==
    LET sentences == SplitSentences(text)
    IN  JoinChunks(sentences, UnitChunks(sentences, maxTok, ov), <<DOT, SP>>)

(***************************************************************************)
(* WordChunkingStrategy.chunk.  WORDS_PER_TOKEN = 0.75 is kept as the      *)
(* fraction 75 / 100.                                                      *)
(***************************************************************************)
WordsPerTokenPct == 75

TargetWordsPerChunk(maxTok) == IntTrunc(maxTok * WordsPerTokenPct, 100)

OverlapWords(maxTok, ov) == IntTrunc(TargetWordsPerChunk(maxTok) * ov, 100)

\* current_pos += (target_words_per_chunk - overlap_words)
WordStep(maxTok, ov) == TargetWordsPerChunk(maxTok) - OverlapWords(maxTok, ov)

\* The while loop never leaves: the position does not advance past total_words.
WordDiverges(text, maxTok, ov) ==
    Len(SplitWords(text)) > 0 /\ WordStep(maxTok, ov) <= 0

\* The windows of the while loop from current_pos on (0-based), as lists of
\* word indices; only evaluated when the loop terminates.
RECURSIVE WordWindows(_, _, _, _)
WordWindows(total_words, current_pos, size, step) ==
    IF current_pos >= total_words THEN <<>>
    ELSE LET chunk_end == Min2(current_pos + size, total_words)
         IN  <<[j \in 1..(chunk_end - current_pos) |-> current_pos + j]>>
             \o WordWindows(total_words, current_pos + step, size, step)

WordChunkUnits(text, maxTok, ov) ==
    WordWindows(Len(SplitWords(text)), 0, TargetWordsPerChunk(maxTok), WordStep(maxTok, ov))

WordChunk(text, maxTok, ov) ==
    JoinChunks(SplitWords(text), WordChunkUnits(text, maxTok, ov), <<SP>>)

(***************************************************************************)
(* SmartChunker.chunk_with_preallocation.                                  *)
(***************************************************************************)
\* Step 1 with the comparison strict.
FitsInOneChunkStrict(total_tokens, max_tokens) == total_tokens < max_tokens

\* Step 1: total_tokens <= self.max_tokens
FitsInOneChunk(total_tokens, max_tokens) == total_tokens <= max_tokens

\* Step 2 divides by self.max_tokens and then by chunk_count.
PreallocationRaises(total_tokens, max_tokens) ==
    \/ max_tokens = 0
    \/ CeilDiv(total_tokens, max_tokens) = 0

PreallocatedChunkCount(total_tokens, max_tokens) == CeilDiv(total_tokens, max_tokens)

TargetTokensPerChunk(total_tokens, max_tokens) ==
    CeilDiv(total_tokens, PreallocatedChunkCount(total_tokens, max_tokens))

\* Step 4 with the comparison not strict.
OversizedChunksGe(chunks, max_tokens) ==
    LET over == {i \in 1..Len(chunks) : count_tokens(chunks[i]) >= max_tokens}
        Nth[k \in 0..Len(chunks)] ==
            IF k = 0 THEN <<>>
            ELSE IF k \in over THEN Append(Nth[k - 1], <<k, count_tokens(chunks[k])>>)
            ELSE Nth[k - 1]
    IN  Nth[Len(chunks)]

\* Step 4: the (i+1, chunk_tokens) entries, in chunk order, of the chunks
\* whose token count exceeds self.max_tokens.
OversizedChunks(chunks, max_tokens) ==
    LET over == {i \in 1..Len(chunks) : count_tokens(chunks[i]) > max_tokens}
        Nth[k \in 0..Len(chunks)] ==
            IF k = 0 THEN <<>>
            ELSE IF k \in over THEN Append(Nth[k - 1], <<k, count_tokens(chunks[k])>>)
            ELSE Nth[k - 1]
    IN  Nth[Len(chunks)]

NoChunkingMetadata(total_tokens, ov) ==
    [total_tokens |-> total_tokens,
     chunk_count |-> 1,
     strategy |-> "no_chunking",
     avg_tokens_per_chunk |-> total_tokens,
     target_tokens_per_chunk |-> total_tokens,
     actual_tokens_per_chunk |-> <<total_tokens>>,
     min_tokens |-> total_tokens,
     max_tokens |-> total_tokens,
     oversized_chunks |-> <<>>,
     overlap_percentage |-> ov]

ChunkingMetadata(total_tokens, chunks, strategy_used, target, max_tokens, ov) ==
    LET chunk_sizes == [i \in 1..Len(chunks) |-> count_tokens(chunks[i])]
    IN  [total_tokens |-> total_tokens,
         chunk_count |-> Len(chunks),
         strategy |-> strategy_used,
         avg_tokens_per_chunk |-> SumSeq(chunk_sizes) \div Len(chunk_sizes),
         target_tokens_per_chunk |-> target,
         actual_tokens_per_chunk |-> chunk_sizes,
         min_tokens |-> MinSeq(chunk_sizes),
         max_tokens |-> MaxSeq(chunk_sizes),
         oversized_chunks |-> OversizedChunks(chunks, max_tokens),
         overlap_percentage |-> ov]

\* Step 3 and the fallback: <<chunks, strategy_used>> once the strategy loop
\* is left, for the return values para, sent and word of the three
\* strategies.  A strategy that raised leaves `chunks` as the one before it
\* set it; only the word strategy can, and then word is sent.
StrategyCascade(text, para, sent, word) ==
    IF Len(para) > 1 THEN <<para, "ParagraphChunkingStrategy">>
    ELSE IF Len(sent) > 1 THEN <<sent, "SentenceChunkingStrategy">>
    ELSE IF Len(word) > 1 THEN <<word, "WordChunkingStrategy">>
    ELSE IF word = <<>> THEN <<<<text>>, "fallback_single">>
    ELSE <<word, NoneVal>>

\* The word strategy is reached with a window that never advances.
CascadeDiverges(text, max_tokens, ov) ==
    LET total_tokens == count_tokens(text)
        target == TargetTokensPerChunk(total_tokens, max_tokens)
    IN  /\ ~FitsInOneChunk(total_tokens, max_tokens)
        /\ ~PreallocationRaises(total_tokens, max_tokens)
        /\ Len(ParagraphChunk(text, target, ov)) <= 1
        /\ Len(SentenceChunk(text, target, ov)) <= 1
        /\ WordDiverges(text, target, ov)

\* The outcome of one call.  kind is "returned", "raised" (ZeroDivisionError
\* in step 2) or "hung" (the word strategy's loop never ends).  When the
\* loop never ends it appends to `chunks` forever; oom says that the
\* interpreter ends this with a MemoryError, which step 3 catches.
ChunkWithPreallocation(text, max_tokens, ov, oom) ==
    LET total_tokens == count_tokens(text)
        target == TargetTokensPerChunk(total_tokens, max_tokens)
        para == ParagraphChunk(text, target, ov)
        sent == SentenceChunk(text, target, ov)
        reachesWord == Len(para) <= 1 /\ Len(sent) <= 1
        diverges == reachesWord /\ WordDiverges(text, target, ov)
        word == IF diverges THEN sent ELSE WordChunk(text, target, ov)
        cascade == StrategyCascade(text, para, sent, word)
    IN  IF FitsInOneChunk(total_tokens, max_tokens)
        THEN [kind |-> "returned", chunks |-> <<text>>,
              metadata |-> NoChunkingMetadata(total_tokens, ov)]
        ELSE IF PreallocationRaises(total_tokens, max_tokens)
        THEN [kind |-> "raised", chunks |-> <<>>, metadata |-> NoneVal]
        ELSE IF diverges /\ ~oom
        THEN [kind |-> "hung", chunks |-> <<>>, metadata |-> NoneVal]
        ELSE [kind |-> "returned", chunks |-> cascade[1],
              metadata |-> ChunkingMetadata(total_tokens, cascade[1], cascade[2],
                                            target, max_tokens, ov)]

(***************************************************************************)
(* TokenManager.calculate_token_budget.  A prompt is given by its length,  *)
(* which under count_tokens is its token count; the safety margin is given *)
(* in percent (safety_margin * 100).                                       *)
(***************************************************************************)
\* len("\nPage Title: ")
PageTitlePrefixLen == 13

\* The overhead with the title left out.
OverheadTokensNoTitle(system_len, custom_len, title_len) ==
    system_len + (IF custom_len > 0 THEN custom_len ELSE 0)

OverheadTokens(system_len, custom_len, title_len) ==
    LET system_tokens == system_len
        custom_tokens == IF custom_len > 0 THEN custom_len ELSE 0
        title_tokens == IF title_len > 0 THEN PageTitlePrefixLen + title_len ELSE 0
    IN  system_tokens + custom_tokens + title_tokens

CalculateTokenBudget(max_context, system_len, custom_len, title_len, output_tokens, margin_pct) ==
    LET overhead_tokens == OverheadTokens(system_len, custom_len, title_len)
        effective_context == IntTrunc(max_context * margin_pct, 100)
    IN  [max_context |-> max_context,
         effective_context |-> effective_context,
         system_tokens |-> system_len,
         custom_tokens |-> IF custom_len > 0 THEN custom_len ELSE 0,
         title_tokens |-> IF title_len > 0 THEN PageTitlePrefixLen + title_len ELSE 0,
         overhead_tokens |-> overhead_tokens,
         output_tokens |-> output_tokens,
         max_input_tokens |-> effective_context - output_tokens - overhead_tokens,
         safety_margin |-> margin_pct]

(***************************************************************************)
(* ParallelChunkProcessor.process_chunks.  processing_time and the other   *)
(* wall-clock figures are left out of ChunkResult and of the metadata.     *)
(***************************************************************************)
ChunkResult(chunk_index, success, output, error, tokens_processed, used_ai) ==
    [chunk_index |-> chunk_index, success |-> success, output |-> output,
     error |-> error, tokens_processed |-> tokens_processed, used_ai |-> used_ai]

\* What a future holds once done: the value process_func returned, or the
\* exception it raised.
Returned(result) == [kind |-> "result", result |-> result, exc |-> NoneVal]
Raised(msg) == [kind |-> "exception", result |-> NoneVal, exc |-> msg]
\* What a future holds before it is done.
Pending == [kind |-> "pending", result |-> NoneVal, exc |-> NoneVal]
\* process_chunks has not returned: no (results, metadata) pair exists yet
NotReturned == [kind |-> "pending"]

\* The except branch logging the exception and recording nothing.
CollectResultSwallowing(results, chunk_idx, outcome) ==
    IF outcome.kind = "result" THEN Append(results, outcome.result) ELSE results

\* One iteration of the as_completed loop for the future of chunk chunk_idx.
CollectResult(results, chunk_idx, outcome) ==
    IF outcome.kind = "result"
    THEN Append(results, outcome.result)
    ELSE Append(results, ChunkResult(chunk_idx, FALSE, NoneText, outcome.exc, 0, FALSE))

\* The sort left out: results stay in completion order.
Unsorted(results) == results

\* results.sort(key=lambda r: r.chunk_index): stable insertion sort.
RECURSIVE InsertByIndex(_, _)
InsertByIndex(sorted, r) ==
    IF sorted = <<>> THEN <<r>>
    ELSE IF sorted[Len(sorted)].chunk_index <= r.chunk_index THEN Append(sorted, r)
    ELSE Append(InsertByIndex(SubSeq(sorted, 1, Len(sorted) - 1), r), sorted[Len(sorted)])

RECURSIVE SortFrom(_, _, _)
SortFrom(results, k, acc) ==
    IF k > Len(results) THEN acc
    ELSE SortFrom(results, k + 1, InsertByIndex(acc, results[k]))

SortByChunkIndex(results) == SortFrom(results, 1, <<>>)

ParallelMetadata(chunks, results, max_workers) ==
    LET successful == Cardinality({k \in 1..Len(results) : results[k].success})
    IN  [total_chunks |-> Len(chunks),
         successful |-> successful,
         failed |-> Len(results) - successful,
         total_tokens_processed |->
             SumSeq([k \in 1..Len(results) |-> results[k].tokens_processed]),
         workers_used |-> max_workers]

(***************************************************************************)
(* ResultMerger.merge_markdown_chunks and _remove_overlap.                 *)
(***************************************************************************)
MinOverlap == 50
OverlapSearchStep == 10

MarkdownSeparator == <<NL, NL, "-", "-", "-", NL, NL>>

StartsWith(text, prefix) ==
    Len(prefix) <= Len(text) /\ SubSeq(text, 1, Len(prefix)) = prefix

\* for size in range(len(prev_end), min_overlap, -10): the first size whose
\* suffix of prev_end starts current_chunk, or 0.
RECURSIVE SearchOverlap(_, _, _)
SearchOverlap(prev_end, current_chunk, size) ==
    IF size <= MinOverlap THEN 0
    ELSE IF StartsWith(current_chunk, LastN(prev_end, size)) THEN size
    ELSE SearchOverlap(prev_end, current_chunk, size - OverlapSearchStep)

\* <<deduplicated, overlap_chars>>
RemoveOverlap(prev_chunk, current_chunk, ov) ==
    LET overlap_window == IntTrunc(Len(prev_chunk) * ov, 100)
        prev_end == LastN(prev_chunk, overlap_window)
        size == SearchOverlap(prev_end, current_chunk, Len(prev_end))
    IN  IF overlap_window < MinOverlap THEN <<current_chunk, 0>>
        ELSE IF size > 0
             THEN <<SubSeq(current_chunk, size + 1, Len(current_chunk)), size>>
             ELSE <<current_chunk, 0>>

\* merged_chunks and total_overlap_removed after the first k chunks
RECURSIVE MergeLoop(_, _, _)
MergeLoop(chunks, k, ov) ==
    IF k = 1 THEN <<<<chunks[1]>>, 0>>
    ELSE LET before == MergeLoop(chunks, k - 1, ov)
             merged_chunks == before[1]
             removed == RemoveOverlap(merged_chunks[Len(merged_chunks)], chunks[k], ov)
         IN  <<Append(merged_chunks, removed[1]), before[2] + removed[2]>>

MergeResult(combined_text, original_length, deduplicated_length, overlap_removed, chunk_count) ==
    [combined_text |-> combined_text, original_length |-> original_length,
     deduplicated_length |-> deduplicated_length, overlap_removed |-> overlap_removed,
     chunk_count |-> chunk_count]

\* merge_markdown_chunks(chunks, separator)
MergeMarkdownWith(chunks, ov, separator) ==
    IF chunks = <<>> THEN MergeResult(<<>>, 0, 0, 0, 0)
    ELSE IF Len(chunks) = 1
    THEN MergeResult(chunks[1], Len(chunks[1]), Len(chunks[1]), 0, 1)
    ELSE LET loop == MergeLoop(chunks, Len(chunks), ov)
             combined == Join(loop[1], separator)
         IN  MergeResult(combined,
                         SumSeq([k \in 1..Len(chunks) |-> Len(chunks[k])]),
                         Len(combined), loop[2], Len(chunks))

\* merge_markdown_chunks(chunks), with the default separator
MergeMarkdownChunks(chunks, ov) == MergeMarkdownWith(chunks, ov, MarkdownSeparator)

(***************************************************************************)
(* JSON texts, as json.loads reads them and json.dumps writes them.  A     *)
(* text is a sequence of tokens.  The brackets, commas and whitespace of   *)
(* an array are tokens of their own and are parsed; an object or a number  *)
(* is one token that carries its value; every other token is a character   *)
(* that starts no JSON value.  A token counts as one character.            *)
(*                                                                         *)
(* Values: an object is a record of its keys, a number is [scalar |-> s],  *)
(* a list is [array |-> <<elements>>].                                     *)
(***************************************************************************)
Tok(t) == [tok |-> t]
Lit(v) == [tok |-> "lit", val |-> v]

LBracket == Tok("[")
RBracket == Tok("]")
Comma == Tok(",")
TokSpace == Tok(SP)
TokNewline == Tok(NL)
TokChar == Tok("a")

Scalar(s) == [scalar |-> s]
Array(elems) == [array |-> elems]

\* isinstance(v, list), isinstance(v, dict)
IsList(v) == "array" \in DOMAIN v
IsDict(v) == "array" \notin DOMAIN v /\ "scalar" \notin DOMAIN v

IsTokSpace(t) == t.tok \in {SP, NL}

\* str.strip() on a token text
RECURSIVE TokStripLeft(_)
TokStripLeft(text) ==
    IF text # <<>> /\ IsTokSpace(Head(text)) THEN TokStripLeft(Tail(text)) ELSE text

RECURSIVE TokStripRight(_)
TokStripRight(text) ==
    IF text # <<>> /\ IsTokSpace(text[Len(text)])
    THEN TokStripRight(SubSeq(text, 1, Len(text) - 1)) ELSE text

TokStrip(text) == TokStripRight(TokStripLeft(text))

\* text[:n]
Prefix(text, n) == SubSeq(text, 1, Min2(n, Len(text)))

\* The first position from i on that holds no whitespace.
RECURSIVE SkipTokSpace(_, _)
SkipTokSpace(text, i) ==
    IF i <= Len(text) /\ IsTokSpace(text[i]) THEN SkipTokSpace(text, i + 1) ELSE i

\* The depth of nesting at which the interpreter gives up:
\* sys.getrecursionlimit(), which the decoder reaches one level per "[".
RecursionLimit == 1000

\* The number of "[" the text opens from position i on before anything else.
LeadingBrackets(text, i) ==
    LET others == {j \in i..Len(text) : text[j].tok # "["}
    IN  IF others = {} THEN Len(text) - i + 1
        ELSE (CHOOSE j \in others : \A k \in others : j <= k) - i

ParseFailure == [ok |-> FALSE]

\* The decoder at position i, which holds no whitespace: the value read and
\* the position after it.
RECURSIVE ParseValue(_, _)
RECURSIVE ParseElements(_, _, _)
ParseValue(text, i) ==
    IF i > Len(text) THEN ParseFailure
    ELSE IF text[i].tok = "lit" THEN [ok |-> TRUE, val |-> text[i].val, next |-> i + 1]
    ELSE IF text[i].tok = "["
    THEN LET j == SkipTokSpace(text, i + 1)
         IN  IF j <= Len(text) /\ text[j] = RBracket
             THEN [ok |-> TRUE, val |-> Array(<<>>), next |-> j + 1]
             ELSE ParseElements(text, j, <<>>)
    ELSE ParseFailure

\* The elements of an array from position i on, after those in `elems`.
ParseElements(text, i, elems) ==
    LET element == ParseValue(text, i)
    IN  IF ~element.ok THEN ParseFailure
        ELSE LET j == SkipTokSpace(text, element.next)
                 all == Append(elems, element.val)
             IN  IF j > Len(text) THEN ParseFailure
                 ELSE IF text[j] = RBracket
                 THEN [ok |-> TRUE, val |-> Array(all), next |-> j + 1]
                 ELSE IF text[j] = Comma
                 THEN ParseElements(text, SkipTokSpace(text, j + 1), all)
                 ELSE ParseFailure

\* What json.loads makes of the decoder's result r: trailing text is an error.
LoadsResult(text, r) ==
    IF ~r.ok THEN [kind |-> "JSONDecodeError"]
    ELSE IF SkipTokSpace(text, r.next) <= Len(text) THEN [kind |-> "JSONDecodeError"]
    ELSE [kind |-> "value", val |-> r.val]

\* json.loads from the first position that holds no whitespace
LoadsFrom(text, start) ==
    IF LeadingBrackets(text, start) >= RecursionLimit THEN [kind |-> "RecursionError"]
    ELSE LoadsResult(text, ParseValue(text, start))

\* json.loads(text): the value, JSONDecodeError, or RecursionError
Loads(text) == LoadsFrom(text, SkipTokSpace(text, 1))

\* json.dumps(val, indent=2) when indent, json.dumps(val) otherwise
RECURSIVE Dumps(_, _)
RECURSIVE DumpElements(_, _, _)
Dumps(val, indent) ==
    IF ~IsList(val) THEN <<Lit(val)>>
    ELSE IF val.array = <<>> THEN <<LBracket, RBracket>>
    ELSE <<LBracket>> \o DumpElements(val.array, 1, indent)
         \o (IF indent THEN <<TokNewline>> ELSE <<>>) \o <<RBracket>>

DumpElements(elems, k, indent) ==
    IF k > Len(elems) THEN <<>>
    ELSE (IF k > 1 THEN <<Comma>> ELSE <<>>)
         \o (IF indent THEN <<TokNewline, TokSpace, TokSpace>>
             ELSE IF k > 1 THEN <<TokSpace>> ELSE <<>>)
         \o Dumps(elems[k], indent)
         \o DumpElements(elems, k + 1, indent)

(***************************************************************************)
(* ResultMerger.merge_json_chunks and _deduplicate_json_blocks.            *)
(***************************************************************************)
FingerprintLen == 100

\* isinstance(block, dict) and 'content' in block
HasContent(block) == IsDict(block) /\ "content" \in DOMAIN block

\* content[:100] if len(content) > 100 else content
Fingerprint(block) == Prefix(block.content, FingerprintLen)

\* existing_fingerprints before the new blocks are looked at
ExistingFingerprints(existing_blocks) ==
    {Fingerprint(existing_blocks[k]) :
        k \in {j \in 1..Len(existing_blocks) : HasContent(existing_blocks[j])}}

\* The loop over new_blocks from position k on:
\* <<unique_blocks, duplicate_count>>
RECURSIVE DeduplicateFrom(_, _, _, _, _)
DeduplicateFrom(new_blocks, k, fingerprints, unique_blocks, duplicate_count) ==
    IF k > Len(new_blocks) THEN <<unique_blocks, duplicate_count>>
    ELSE LET block == new_blocks[k]
         IN  IF HasContent(block)
             THEN IF Fingerprint(block) \in fingerprints
                  THEN DeduplicateFrom(new_blocks, k + 1, fingerprints,
                                       unique_blocks, duplicate_count + 1)
                  ELSE DeduplicateFrom(new_blocks, k + 1,
                                       fingerprints \cup {Fingerprint(block)},
                                       Append(unique_blocks, block), duplicate_count)
             ELSE DeduplicateFrom(new_blocks, k + 1, fingerprints,
                                  Append(unique_blocks, block), duplicate_count)

DeduplicateJsonBlocks(existing_blocks, new_blocks) ==
    DeduplicateFrom(new_blocks, 1, ExistingFingerprints(existing_blocks), <<>>, 0)

\* The block appended for a chunk that is not JSON.
InvalidJsonBlock(i) ==
    [error |-> TRUE, chunk_index |-> i, message |-> "Invalid JSON"]

\* One pass of the loop over the chunks: the state `before` it, the chunk
\* of 0-based index i as json.loads `parsed` it.
MergeJsonStep(before, parsed, i) ==
    IF before.kind # "ok" THEN before
    ELSE IF parsed.kind = "RecursionError"
    THEN [kind |-> "RecursionError", all_blocks |-> <<>>, total_duplicates |-> 0]
    ELSE IF parsed.kind = "JSONDecodeError"
    THEN [before EXCEPT !.all_blocks = Append(@, InvalidJsonBlock(i))]
    ELSE IF ~IsList(parsed.val) THEN before
    ELSE IF i = 0
    THEN [before EXCEPT !.all_blocks = @ \o parsed.val.array]
    ELSE LET dedup == DeduplicateJsonBlocks(before.all_blocks, parsed.val.array)
         IN  [before EXCEPT !.all_blocks = @ \o dedup[1],
                            !.total_duplicates = @ + dedup[2]]

\* all_blocks and total_duplicates after the first k chunks, or the
\* exception that left the loop.
RECURSIVE MergeJsonLoop(_, _)
MergeJsonLoop(chunks, k) ==
    IF k = 0 THEN [kind |-> "ok", all_blocks |-> <<>>, total_duplicates |-> 0]
    ELSE MergeJsonStep(MergeJsonLoop(chunks, k - 1), Loads(chunks[k]), k - 1)

\* for i, block in enumerate(all_blocks): if ... 'index' in block: block['index'] = i
Reindex(all_blocks) ==
    [i \in 1..Len(all_blocks) |->
        IF IsDict(all_blocks[i]) /\ "index" \in DOMAIN all_blocks[i]
        THEN [all_blocks[i] EXCEPT !.index = i - 1]
        ELSE all_blocks[i]]

\* MergeResult(combined_text=combined, ...) of merge_json_chunks
JsonMergeResult(chunks, combined, total_duplicates) ==
    MergeResult(combined, SumSeq([k \in 1..Len(chunks) |-> Len(chunks[k])]),
                Len(combined), total_duplicates, Len(chunks))

\* After the loop: the blocks reindexed and serialised, or the exception.
MergedJson(chunks, loop) ==
    IF loop.kind # "ok" THEN [kind |-> "raised", exc |-> loop.kind]
    ELSE [kind |-> "returned",
          result |-> JsonMergeResult(chunks, Dumps(Array(Reindex(loop.all_blocks)), TRUE),
                                     loop.total_duplicates)]

\* A merge that parses and serialises again a list of one chunk as well.
MergeJsonChunksReserialising(chunks) ==
    MergedJson(chunks, MergeJsonLoop(chunks, Len(chunks)))

\* merge_json_chunks(chunks): the MergeResult returned, or the exception raised
MergeJsonChunks(chunks) ==
    IF chunks = <<>>
    THEN [kind |-> "returned", result |-> MergeResult(<<LBracket, RBracket>>, 0, 0, 0, 0)]
    ELSE IF Len(chunks) = 1
    THEN [kind |-> "returned",
          result |-> MergeResult(chunks[1], Len(chunks[1]), Len(chunks[1]), 0, 1)]
    ELSE MergedJson(chunks, MergeJsonLoop(chunks, Len(chunks)))

(***************************************************************************)
(* ResultMerger.merge_combined_chunks.                                     *)
(***************************************************************************)
\* The separator of merge_markdown_chunks, in tokens.
TokSeparator ==
    <<TokNewline, TokNewline, Tok("-"), Tok("-"), Tok("-"), TokNewline, TokNewline>>

\* One pass of the loop over the chunks: the state `before` it, the chunk
\* as json.loads `parsed` it.
CombinedStep(before, parsed) ==
    IF before.kind # "ok" THEN before
    ELSE IF parsed.kind = "RecursionError"
    THEN [kind |-> "RecursionError", markdown_parts |-> <<>>, json_parts |-> <<>>]
    ELSE IF parsed.kind = "JSONDecodeError" THEN before
    \* 'markdown' in data, for a number
    ELSE IF "scalar" \in DOMAIN parsed.val
    THEN [kind |-> "TypeError", markdown_parts |-> <<>>, json_parts |-> <<>>]
    \* 'markdown' in data, for a list that holds no such string
    ELSE IF IsList(parsed.val) THEN before
    ELSE LET data == parsed.val
         IN  [kind |-> "ok",
              markdown_parts |->
                  before.markdown_parts
                  \o (IF "markdown" \in DOMAIN data THEN <<data.markdown>> ELSE <<>>),
              json_parts |->
                  before.json_parts
                  \o (IF "structured" \in DOMAIN data
                      THEN <<Dumps(data.structured, FALSE)>> ELSE <<>>)]

\* markdown_parts and json_parts after the first k chunks, or the exception
\* that left the loop.
RECURSIVE CombinedParts(_, _)
CombinedParts(chunks, k) ==
    IF k = 0 THEN [kind |-> "ok", markdown_parts |-> <<>>, json_parts |-> <<>>]
    ELSE CombinedStep(CombinedParts(chunks, k - 1), Loads(chunks[k]))

\* The dict returned from the two merges, or the exception of the JSON one.
CombinedReturn(parts, markdown_result, json_result) ==
    IF json_result.kind # "returned" THEN json_result
    ELSE [kind |-> "returned",
          result |->
              [markdown |-> markdown_result.combined_text,
               structured |-> json_result.result.combined_text,
               metadata |->
                   [markdown_chunks |-> Len(parts.markdown_parts),
                    json_chunks |-> Len(parts.json_parts),
                    markdown_overlap_removed |-> markdown_result.overlap_removed,
                    json_duplicates_removed |-> json_result.result.overlap_removed]]]

\* After the loop: the two merges of the parts, or the exception.
MergeCombinedParts(parts, ov) ==
    IF parts.kind # "ok" THEN [kind |-> "raised", exc |-> parts.kind]
    ELSE CombinedReturn(parts,
                        MergeMarkdownWith(parts.markdown_parts, ov, TokSeparator),
                        MergeJsonChunks(parts.json_parts))

\* merge_combined_chunks(chunks): the dict returned, or the exception raised
MergeCombinedChunks(chunks, ov) ==
    MergeCombinedParts(CombinedParts(chunks, Len(chunks)), ov)


(***************************************************************************)
(* StructuredExtractionStrategy.post_process.  The response is a token     *)
(* text; a code fence and the word after it are tokens of their own.       *)
(***************************************************************************)
\* The three backquotes of a code fence.
Fence == Tok("fence")
JsonTag == Tok("json")

\* cleaned[:500], response[:500]
RawResponseLimit == 500

\* if cleaned.startswith(fence + "json") ... elif cleaned.startswith(fence) ...
DropFenceStart(cleaned) ==
    IF Len(cleaned) >= 2 /\ cleaned[1].tok = Fence.tok /\ cleaned[2].tok = JsonTag.tok
    THEN TokStrip(SubSeq(cleaned, 3, Len(cleaned)))
    ELSE IF Len(cleaned) >= 1 /\ cleaned[1].tok = Fence.tok
    THEN TokStrip(SubSeq(cleaned, 2, Len(cleaned)))
    ELSE cleaned

\* if cleaned.endswith(fence): cleaned = cleaned[:-3].strip()
DropFenceEnd(cleaned) ==
    IF Len(cleaned) >= 1 /\ cleaned[Len(cleaned)].tok = Fence.tok
    THEN TokStrip(SubSeq(cleaned, 1, Len(cleaned) - 1))
    ELSE cleaned

\* cleaned, when the try block is entered
CleanedResponse(response) == DropFenceEnd(DropFenceStart(TokStrip(response)))

\* The block with the fields it lacks: index i, tags [], type 'text'.
WithDefaults(block, i) ==
    [f \in DOMAIN block \cup {"index", "tags", "type"} |->
        IF f \in DOMAIN block THEN block[f]
        ELSE IF f = "index" THEN i
        ELSE IF f = "tags" THEN Array(<<>>)
        ELSE "text"]

\* valid_blocks from the k-th element of data on
RECURSIVE ValidBlocksFrom(_, _)
ValidBlocksFrom(data, k) ==
    IF k > Len(data) THEN <<>>
    ELSE (IF HasContent(data[k]) THEN <<WithDefaults(data[k], k - 1)>> ELSE <<>>)
         \o ValidBlocksFrom(data, k + 1)

\* The block returned for a response that is not JSON.
ParseErrorBlock(cleaned, chunk_index) ==
    [index |-> chunk_index, error |-> TRUE, tags |-> Array(<<"error">>),
     type |-> "error", content |-> "JSON parsing failed",
     raw_response |-> Prefix(cleaned, RawResponseLimit)]

\* The try block, with cleaned as json.loads `parsed` it.
StructuredResult(cleaned, parsed, chunk_index) ==
    IF parsed.kind = "RecursionError" THEN [kind |-> "raised", exc |-> parsed.kind]
    ELSE IF parsed.kind = "JSONDecodeError"
    THEN [kind |-> "returned",
          result |-> Dumps(Array(<<ParseErrorBlock(cleaned, chunk_index)>>), TRUE)]
    ELSE [kind |-> "returned",
          result |-> Dumps(Array(ValidBlocksFrom(IF IsList(parsed.val) THEN parsed.val.array
                                                 ELSE <<parsed.val>>, 1)), TRUE)]

StructuredParse(cleaned, chunk_index) ==
    StructuredResult(cleaned, Loads(cleaned), chunk_index)

\* post_process(response, chunk_index): the text returned, or the exception
StructuredPostProcess(response, chunk_index) ==
    StructuredParse(CleanedResponse(response), chunk_index)

(***************************************************************************)
(* CombinedExtractionStrategy.post_process.  The three markers are tokens. *)
(***************************************************************************)
MarkdownMarker == Tok("---MARKDOWN---")
JsonMarker == Tok("---JSON---")
EndMarker == Tok("---END---")

\* The first position of text that holds the marker, or 0.
FirstMarker(text, marker) ==
    LET at == {i \in 1..Len(text) : text[i].tok = marker.tok}
    IN  IF at = {} THEN 0 ELSE CHOOSE i \in at : \A j \in at : i <= j

\* text.split(marker)
RECURSIVE Split(_, _)
SplitAt(text, marker, p) ==
    IF p = 0 THEN <<text>>
    ELSE <<SubSeq(text, 1, p - 1)>> \o Split(SubSeq(text, p + 1, Len(text)), marker)

Split(text, marker) == SplitAt(text, marker, FirstMarker(text, marker))

\* except Exception: the error object
CombinedError(message, response) ==
    [kind |-> "returned",
     result |-> <<Lit([error |-> TRUE, message |-> message,
                       raw_response |-> Prefix(response, RawResponseLimit)])>>]

\* json.loads(json_part) and the result returned
CombinedResult(markdown, json_data, response, chunk_index) ==
    IF json_data.kind # "value" THEN CombinedError(json_data.kind, response)
    ELSE [kind |-> "returned",
          result |-> <<Lit([markdown |-> markdown, structured |-> json_data.val,
                            chunk_index |-> chunk_index])>>]

\* remaining = parts[1].split('---JSON---') and what follows
CombinedSections(remaining, response, chunk_index) ==
    IF Len(remaining) < 2 THEN CombinedError("Missing JSON section", response)
    ELSE CombinedResult(TokStrip(remaining[1]),
                        Loads(TokStrip(Split(remaining[2], EndMarker)[1])),
                        response, chunk_index)

\* parts = response.split('---MARKDOWN---') and what follows
CombinedSplit(parts, response, chunk_index) ==
    IF Len(parts) < 2 THEN CombinedError("Missing MARKDOWN section", response)
    ELSE CombinedSections(Split(parts[2], JsonMarker), response, chunk_index)

\* post_process(response, chunk_index): the text returned
CombinedPostProcess(response, chunk_index) ==
    CombinedSplit(Split(response, MarkdownMarker), response, chunk_index)

(***************************************************************************)
(* TokenManager.get_model_context_limit.  A model id is the sequence of    *)
(* its characters.                                                         *)
(***************************************************************************)
\* MODEL_CONTEXT_LIMITS, in the order of the dict
MODEL_CONTEXT_LIMITS ==
    <<[id |->
        <<"o", "p", "e", "n", "a", "i", "/", "g", "p", "t", "-", "3", ".",
          "5", "-", "t", "u", "r", "b", "o">>,
      limit |-> 16000],
      [id |->
        <<"o", "p", "e", "n", "a", "i", "/", "g", "p", "t", "-", "4", "-",
          "t", "u", "r", "b", "o">>,
      limit |-> 128000],
      [id |->
        <<"o", "p", "e", "n", "a", "i", "/", "g", "p", "t", "-", "4", "o">>,
      limit |-> 128000],
      [id |->
        <<"o", "p", "e", "n", "a", "i", "/", "g", "p", "t", "-", "4", "o",
          "-", "m", "i", "n", "i">>,
      limit |-> 128000],
      [id |->
        <<"a", "n", "t", "h", "r", "o", "p", "i", "c", "/", "c", "l", "a",
          "u", "d", "e", "-", "3", "-", "s", "o", "n", "n", "e", "t">>,
      limit |-> 200000],
      [id |->
        <<"a", "n", "t", "h", "r", "o", "p", "i", "c", "/", "c", "l", "a",
          "u", "d", "e", "-", "3", "-", "h", "a", "i", "k", "u">>,
      limit |-> 200000],
      [id |->
        <<"a", "n", "t", "h", "r", "o", "p", "i", "c", "/", "c", "l", "a",
          "u", "d", "e", "-", "3", ".", "5", "-", "s", "o", "n", "n", "e", "t">>,
      limit |-> 200000],
      [id |->
        <<"a", "n", "t", "h", "r", "o", "p", "i", "c", "/", "c", "l", "a",
          "u", "d", "e", "-", "3", ".", "5", "-", "h", "a", "i", "k", "u">>,
      limit |-> 200000],
      [id |->
        <<"d", "e", "e", "p", "s", "e", "e", "k", "/", "d", "e", "e", "p",
          "s", "e", "e", "k", "-", "c", "h", "a", "t">>,
      limit |-> 128000],
      [id |->
        <<"g", "o", "o", "g", "l", "e", "/", "g", "e", "m", "i", "n", "i",
          "-", "p", "r", "o">>,
      limit |-> 32000],
      [id |->
        <<"g", "o", "o", "g", "l", "e", "/", "g", "e", "m", "i", "n", "i",
          "-", "1", ".", "5", "-", "p", "r", "o">>,
      limit |-> 1000000],
      [id |->
        <<"g", "o", "o", "g", "l", "e", "/", "g", "e", "m", "i", "n", "i",
          "-", "2", ".", "0", "-", "f", "l", "a", "s", "h">>,
      limit |-> 1000000],
      [id |->
        <<"m", "e", "t", "a", "-", "l", "l", "a", "m", "a", "/", "l", "l",
          "a", "m", "a", "-", "3", "-", "7", "0", "b">>,
      limit |-> 8000],
      [id |->
        <<"m", "e", "t", "a", "-", "l", "l", "a", "m", "a", "/", "l", "l",
          "a", "m", "a", "-", "3", ".", "1", "-", "7", "0", "b">>,
      limit |-> 128000],
      [id |->
        <<"m", "e", "t", "a", "-", "l", "l", "a", "m", "a", "/", "l", "l",
          "a", "m", "a", "-", "3", ".", "1", "-", "4", "0", "5", "b">>,
      limit |-> 128000]>>

\* default_limit = 128000
DefaultLimit == 128000

\* a in b, for two strings
IsSubstring(a, b) ==
    \E i \in 0..(Len(b) - Len(a)) : SubSeq(b, i + 1, i + Len(a)) = a

\* The positions of the table whose model is the model id.
ExactEntries(model_id) ==
    {k \in 1..Len(MODEL_CONTEXT_LIMITS) : MODEL_CONTEXT_LIMITS[k].id = model_id}

\* known_model in model_id or model_id in known_model
FuzzyEntries(model_id) ==
    {k \in 1..Len(MODEL_CONTEXT_LIMITS) :
        \/ IsSubstring(MODEL_CONTEXT_LIMITS[k].id, model_id)
        \/ IsSubstring(model_id, MODEL_CONTEXT_LIMITS[k].id)}

\* The first position of a non-empty set of positions.
FirstEntry(entries) == CHOOSE k \in entries : \A j \in entries : k <= j

\* The limit of the last position of a non-empty set of positions.
LastEntryLimit(entries) ==
    MODEL_CONTEXT_LIMITS[CHOOSE k \in entries : \A j \in entries : j <= k].limit

\* _query_openrouter_api(model_id) for what the request to the model list
\* came to: the context_length found there, or None for a request that
\* failed or timed out, a status other than 200, a list without the model
\* and a context_length of 0.
QueryOpenrouterApi(live) ==
    IF live.kind = "found" /\ live.context_length # 0
    THEN [found |-> TRUE, limit |-> live.context_length]
    ELSE [found |-> FALSE]

\* A static part that takes the last entry that matches.
StaticLimitLastMatch(model_id) ==
    IF ExactEntries(model_id) # {}
    THEN [limit |-> MODEL_CONTEXT_LIMITS[FirstEntry(ExactEntries(model_id))].limit,
          source |-> "table"]
    ELSE IF FuzzyEntries(model_id) # {}
    THEN [limit |-> LastEntryLimit(FuzzyEntries(model_id)), source |-> "fuzzy"]
    ELSE [limit |-> DefaultLimit, source |-> "default"]

\* The static part of the resolution: table, fuzzy match, default.
StaticLimit(model_id) ==
    IF ExactEntries(model_id) # {}
    THEN [limit |-> MODEL_CONTEXT_LIMITS[FirstEntry(ExactEntries(model_id))].limit,
          source |-> "table"]
    ELSE IF FuzzyEntries(model_id) # {}
    THEN [limit |-> MODEL_CONTEXT_LIMITS[FirstEntry(FuzzyEntries(model_id))].limit,
          source |-> "fuzzy"]
    ELSE [limit |-> DefaultLimit, source |-> "default"]

\* self._model_cache[model_id] = limit
CacheWith(cache, model_id, limit) ==
    [m \in DOMAIN cache \cup {model_id} |-> IF m = model_id THEN limit ELSE cache[m]]

\* No query without an api_key.
NotQueried == [found |-> FALSE]

\* What the call does after the cache was found without the model id:
\* `limit` is what the query returned, `resolved` what the table gives.
ResolveUncached(limit, resolved, queried) ==
    IF limit.found
    THEN [limit |-> limit.limit, source |-> "live", queried |-> queried, wrote |-> TRUE]
    ELSE [limit |-> resolved.limit, source |-> resolved.source,
          queried |-> queried, wrote |-> TRUE]

\* get_model_context_limit(model_id) of a TokenManager with this api_key
\* and _model_cache, `live` being what a query of the model list comes to:
\* the limit returned, where it came from, whether the list was queried and
\* whether the cache was written.
GetModelContextLimit(manager, model_id, live) ==
    IF model_id \in DOMAIN manager.cache
    THEN [limit |-> manager.cache[model_id], source |-> "cache",
          queried |-> FALSE, wrote |-> FALSE]
    ELSE ResolveUncached(IF manager.api_key THEN QueryOpenrouterApi(live) ELSE NotQueried,
                         StaticLimit(model_id), manager.api_key)

(***************************************************************************)
(* AIConverter.convert_to_markdown, seen from its callers: the remote      *)
(* model and the two local extractors are external, so a call ends in one  *)
(* of three ways, with the text it produced drawn from MdOutputs.          *)
(***************************************************************************)
MdOutputs == {<<"a">>, <<SP>>}

RemoteError == "remote conversion failed"
FallbackFailure == "html2text failed"

ConvertToMarkdownOutcomes ==
    \* the remote conversion succeeded: (markdown, True, None)
    {[kind |-> "ai", md |-> m, used_ai |-> TRUE, error |-> NoneVal] : m \in MdOutputs}
    \* a local extractor produced the text: (markdown, False, error_msg)
    \cup {[kind |-> "fallback", md |-> m, used_ai |-> FALSE, error |-> RemoteError] :
             m \in MdOutputs}
    \* html2text failed or timed out: the exception leaves convert_to_markdown
    \cup {[kind |-> "raise", md |-> <<>>, used_ai |-> FALSE, error |-> FallbackFailure]}

\* response.strip()
RECURSIVE StripLeft(_)
StripLeft(text) ==
    IF text # <<>> /\ IsSpace(Head(text)) THEN StripLeft(Tail(text)) ELSE text

RECURSIVE StripRight(_)
StripRight(text) ==
    IF text # <<>> /\ IsSpace(text[Len(text)])
    THEN StripRight(SubSeq(text, 1, Len(text) - 1)) ELSE text

\* MarkdownExtractionStrategy.post_process.  The artifacts it removes
\* ("Here is the markdown:", code fences) cannot occur over Chars, which
\* leaves the strip.
PostProcessMarkdown(response) == StripRight(StripLeft(response))

\* process_single_chunk taking whatever text convert_to_markdown returned,
\* the error it reported left aside.
ProcessSingleChunkKeepingFallback(chunk_idx, chunk, conv) ==
    IF conv.kind # "raise"
    THEN ChunkResult(chunk_idx, TRUE, PostProcessMarkdown(conv.md), NoneVal,
                     count_tokens(chunk), conv.used_ai)
    ELSE ChunkResult(chunk_idx, FALSE, NoneText, conv.error, 0, FALSE)

\* process_single_chunk, the process_func of convert_large_html, for the
\* outcome `conv` of its convert_to_markdown call.
ProcessSingleChunk(chunk_idx, chunk, conv) ==
    IF conv.kind = "ai"
    THEN ChunkResult(chunk_idx, TRUE, PostProcessMarkdown(conv.md), NoneVal,
                     count_tokens(chunk), conv.used_ai)
    ELSE ChunkResult(chunk_idx, FALSE, NoneText, conv.error, 0, FALSE)

(***************************************************************************)
(* State.                                                                  *)
(*   ck_*  one SmartChunker and its chunk_with_preallocation call          *)
(*   pp_*  one ParallelChunkProcessor.process_chunks call                  *)
(*   tb_*  one TokenManager.calculate_token_budget call                    *)
(*   cl_*  one AIConverter.convert_large_html call                         *)
(*   mg_*  one ResultMerger and one call of a merge method                 *)
(*   ps_*  one extraction strategy's post_process call                     *)
(*   tm_*  the TokenManagers of one process and their model-limit caches   *)
(*   cv_*  one AIConverter.convert_to_markdown call                        *)
(***************************************************************************)
VARIABLES
    ck_pc,          \* "idle", "call", "returned", "raised", "hung"
    ck_text,        \* the text to chunk
    ck_max_tokens,  \* SmartChunker.max_tokens
    ck_overlap,     \* SmartChunker.overlap_percentage, in percent
    ck_chunks,      \* the chunks returned
    ck_metadata,    \* the metadata returned
    pp_pc,          \* "idle", "call", "collect", "returned"
    pp_chunks,      \* the chunks argument
    pp_workers,     \* ParallelChunkProcessor.max_workers
    pp_fut,         \* the futures: position -> [state, outcome]
    pp_yielded,     \* positions of the futures as_completed has yielded
    pp_results,     \* the results list, in collection order
    pp_return,      \* the (results, metadata) returned
    tb_pc,          \* "idle", "call", "returned"
    tb_in,          \* the arguments of calculate_token_budget
    tb_out,         \* the budget returned
    cl_pc,          \* "idle", "call", "chunked", "returned", "raised", "hung"
    cl_in,          \* the arguments of convert_large_html and the model limit
    cl_calls,       \* the convert_to_markdown calls made so far
    cl_ret,         \* the (content, used_ai, error_message) returned
    mg_pc,          \* "idle", "call", "returned", "raised"
    mg_in,          \* the merge method called, its chunks, the overlap percent
    mg_out,         \* what the merge returned
    ps_pc,          \* "idle", "call", "returned", "raised"
    ps_in,          \* the strategy, the response and the chunk_index
    ps_out,         \* the text post_process returned
    tm_caches,      \* _model_cache of every TokenManager created so far
    tm_calls,       \* the get_model_context_limit calls made so far, with results
    tm_queries,     \* live queries made so far, per model id
    tm_writes,      \* cache writes made so far, per model id
    cv_pc,          \* "idle", "call", "trafilatura", "html2text", "returned", "raised"
    cv_in,          \* whether there is an api_key, and use_ai
    cv_error,       \* error_msg
    cv_tried,       \* the converters called so far, in order
    cv_out          \* the (markdown, used_ai, error) returned, or the exception

ckVars == <<ck_pc, ck_text, ck_max_tokens, ck_overlap, ck_chunks, ck_metadata>>
ppVars == <<pp_pc, pp_chunks, pp_workers, pp_fut, pp_yielded, pp_results, pp_return>>
tbVars == <<tb_pc, tb_in, tb_out>>
clVars == <<cl_pc, cl_in, cl_calls, cl_ret>>
mgVars == <<mg_pc, mg_in, mg_out>>
psVars == <<ps_pc, ps_in, ps_out>>
tmVars == <<tm_caches, tm_calls, tm_queries, tm_writes>>
cvVars == <<cv_pc, cv_in, cv_error, cv_tried, cv_out>>
vars == <<ckVars, ppVars, tbVars, clVars, mgVars, psVars, tmVars, cvVars>>

CkIdle ==
    /\ ck_pc = "idle" /\ ck_text = <<>> /\ ck_max_tokens = 0 /\ ck_overlap = 0
    /\ ck_chunks = <<>> /\ ck_metadata = NoneVal

PpIdle ==
    /\ pp_pc = "idle" /\ pp_chunks = <<>> /\ pp_workers = 1 /\ pp_fut = <<>>
    /\ pp_yielded = {} /\ pp_results = <<>> /\ pp_return = NotReturned

TbIdle == tb_pc = "idle" /\ tb_in = NoneVal /\ tb_out = NoneVal

ClIdle == cl_pc = "idle" /\ cl_in = NoneVal /\ cl_calls = {} /\ cl_ret = NoneVal

MgIdle == mg_pc = "idle" /\ mg_in = NoneVal /\ mg_out = NoneVal

PsIdle == ps_pc = "idle" /\ ps_in = NoneVal /\ ps_out = NoneVal

TmIdle == tm_caches = <<>> /\ tm_calls = <<>> /\ tm_queries = <<>> /\ tm_writes = <<>>

CvIdle ==
    /\ cv_pc = "idle" /\ cv_in = NoneVal /\ cv_error = NoneVal
    /\ cv_tried = <<>> /\ cv_out = NoneVal

(***************************************************************************)
(* The chunker on its own.                                                 *)
(***************************************************************************)
MaxTokenLimit == 4   \* largest max_tokens tried
MaxDeficit == 2      \* most negative max_tokens tried

TokenLimits == (0 - MaxDeficit)..MaxTokenLimit
Overlaps == {0, 50}

InitChunk ==
    /\ ck_pc = "call"
    /\ ck_text \in Texts(MaxLen)
    /\ ck_max_tokens \in TokenLimits
    /\ ck_overlap \in Overlaps
    /\ ck_chunks = <<>>
    /\ ck_metadata = NoneVal
    /\ PpIdle /\ TbIdle /\ ClIdle
    /\ MgIdle /\ PsIdle /\ TmIdle /\ CvIdle

\* chunker.chunk_with_preallocation(text)
ChunkCall ==
    /\ ck_pc = "call"
    /\ \E oom \in (IF CascadeDiverges(ck_text, ck_max_tokens, ck_overlap)
                   THEN BOOLEAN ELSE {FALSE}) :
         LET r == ChunkWithPreallocation(ck_text, ck_max_tokens, ck_overlap, oom)
         IN  /\ ck_pc' = r.kind
             /\ ck_chunks' = r.chunks
             /\ ck_metadata' = r.metadata
    /\ UNCHANGED <<mgVars, psVars, tmVars, cvVars>>
    /\ UNCHANGED <<ck_text, ck_max_tokens, ck_overlap, ppVars, tbVars, clVars>>

NextChunk == ChunkCall

SpecChunk == InitChunk /\ [][NextChunk]_vars

(***************************************************************************)
(* The steps of process_chunks.  The executor hands queued tasks to its    *)
(* workers first in, first out, at most max_workers at a time; the         *)
(* collecting thread takes the finished futures in any order.              *)
(***************************************************************************)
Positions == 1..Len(pp_chunks)

Queued == {p \in Positions : pp_fut[p].state = "queued"}
Running == {p \in Positions : pp_fut[p].state = "running"}
\* the tasks whose process_func call never ends
Stuck == {p \in Positions : pp_fut[p].state = "stuck"}
Done == {p \in Positions : pp_fut[p].state = "done"}

\* executor.submit for every chunk
PP_Submit ==
    /\ pp_pc = "call"
    /\ pp_pc' = "collect"
    /\ pp_fut' = [p \in Positions |-> [state |-> "queued", outcome |-> Pending]]
    /\ pp_yielded' = {}
    /\ pp_results' = <<>>
    /\ UNCHANGED <<mgVars, psVars, tmVars, cvVars>>
    /\ UNCHANGED <<pp_chunks, pp_workers, pp_return, ckVars, tbVars, clVars>>

\* A pool that runs one task at a time whatever max_workers is.
FreeWorkerOfOne == Cardinality(Running \cup Stuck) < 1

\* ThreadPoolExecutor(max_workers=self.max_workers): a worker is free while
\* fewer than max_workers calls of process_func are under way.
FreeWorker == Cardinality(Running \cup Stuck) < pp_workers

\* a free worker takes the oldest queued task
PP_Start(p) ==
    /\ pp_pc = "collect"
    /\ p \in Queued
    /\ \A q \in Queued : p <= q
    /\ FreeWorker
    /\ pp_fut' = [pp_fut EXCEPT ![p].state = "running"]
    /\ UNCHANGED <<mgVars, psVars, tmVars, cvVars>>
    /\ UNCHANGED <<pp_pc, pp_chunks, pp_workers, pp_yielded, pp_results, pp_return,
                   ckVars, tbVars, clVars>>

\* for future in as_completed(futures): one iteration
PP_Collect(p) ==
    /\ pp_pc = "collect"
    /\ p \in Done \ pp_yielded
    /\ pp_yielded' = pp_yielded \cup {p}
    /\ pp_results' = CollectResult(pp_results, p - 1, pp_fut[p].outcome)
    /\ UNCHANGED <<mgVars, psVars, tmVars, cvVars>>
    /\ UNCHANGED <<pp_pc, pp_chunks, pp_workers, pp_fut, pp_return,
                   ckVars, tbVars, clVars>>

\* the loop is exhausted: sort, compute the metadata, return
PP_Return ==
    /\ pp_pc = "collect"
    /\ pp_yielded = Positions
    /\ pp_pc' = "returned"
    /\ pp_return' = LET results == SortByChunkIndex(pp_results)
                    IN  [results |-> results,
                         metadata |-> ParallelMetadata(pp_chunks, results, pp_workers)]
    /\ UNCHANGED <<mgVars, psVars, tmVars, cvVars>>
    /\ UNCHANGED <<pp_chunks, pp_workers, pp_fut, pp_yielded, pp_results,
                   ckVars, tbVars, clVars>>

(***************************************************************************)
(* process_chunks on its own, with any process_func that keeps to its      *)
(* signature: called for chunk i it returns a ChunkResult for chunk i, a   *)
(* success or a failure, or raises.                                        *)
(***************************************************************************)
ProcessFuncOutcomes(chunk_idx, chunk) ==
    {Returned(ChunkResult(chunk_idx, TRUE, chunk, NoneVal, count_tokens(chunk), TRUE)),
     Returned(ChunkResult(chunk_idx, FALSE, NoneText, "failed", 0, FALSE)),
     Raised("boom")}

InitParallel ==
    /\ pp_pc = "call"
    /\ \E n \in 0..MaxChunks : pp_chunks = [p \in 1..n |-> <<"a">>]
    /\ pp_workers \in 1..MaxWorkers
    /\ pp_fut = <<>>
    /\ pp_yielded = {}
    /\ pp_results = <<>>
    /\ pp_return = NotReturned
    /\ CkIdle /\ TbIdle /\ ClIdle
    /\ MgIdle /\ PsIdle /\ TmIdle /\ CvIdle

\* a worker's call of process_func ends
PP_Finish(p) ==
    /\ pp_pc = "collect"
    /\ cl_pc = "idle"
    /\ p \in Running
    /\ \E outcome \in ProcessFuncOutcomes(p - 1, pp_chunks[p]) :
         pp_fut' = [pp_fut EXCEPT ![p] = [state |-> "done", outcome |-> outcome]]
    /\ UNCHANGED <<mgVars, psVars, tmVars, cvVars>>
    /\ UNCHANGED <<pp_pc, pp_chunks, pp_workers, pp_yielded, pp_results, pp_return,
                   ckVars, tbVars, clVars>>

\* a worker's call of process_func blocks for good; the model lets this
\* happen to one chunk of a call
PP_Hang(p) ==
    /\ pp_pc = "collect"
    /\ cl_pc = "idle"
    /\ p \in Running
    /\ Stuck = {}
    /\ pp_fut' = [pp_fut EXCEPT ![p].state = "stuck"]
    /\ UNCHANGED <<mgVars, psVars, tmVars, cvVars>>
    /\ UNCHANGED <<pp_pc, pp_chunks, pp_workers, pp_yielded, pp_results, pp_return,
                   ckVars, tbVars, clVars>>

NextParallel ==
    \/ PP_Submit
    \/ \E p \in Positions : PP_Start(p)
    \/ \E p \in Positions : PP_Finish(p)
    \/ \E p \in Positions : PP_Hang(p)
    \/ \E p \in Positions : PP_Collect(p)
    \/ PP_Return

SpecParallel == InitParallel /\ [][NextParallel]_vars

\* What every step of process_chunks changes: its position, the state of a
\* future, or the set of collected futures.
ppProgress == <<pp_pc, [p \in DOMAIN pp_fut |-> pp_fut[p].state], pp_yielded>>

\* The steps in which process_chunks moves on.
ParallelProgress ==
    \/ PP_Submit
    \/ \E p \in Positions : PP_Start(p)
    \/ \E p \in Positions : PP_Finish(p)
    \/ \E p \in Positions : PP_Collect(p)
    \/ PP_Return

\* The executor's threads and the collecting thread keep running: a task
\* that can be started is started, a call of process_func that is not stuck
\* ends, a finished future is collected.  No step can be taken twice, so
\* fairness for the steps together is fairness for each.
ParallelFairness == WF_ppProgress(ParallelProgress)

SpecParallelLive == SpecParallel /\ ParallelFairness

(***************************************************************************)
(* calculate_token_budget on its own.                                      *)
(***************************************************************************)
\* values get_model_context_limit returns: the static table's and the default
ContextLimits == {8000, 16000, 32000, 128000, 200000, 1000000}

InitBudget ==
    /\ tb_pc = "call"
    /\ tb_in \in [max_context : ContextLimits,
                  system_len : {0, 500, 620},
                  custom_len : {0, 100},
                  title_len : {0, 5},
                  output_tokens : {0, 4000, 8000},
                  margin_pct : {50, 95, 100}]
    /\ tb_out = NoneVal
    /\ CkIdle /\ PpIdle /\ ClIdle
    /\ MgIdle /\ PsIdle /\ TmIdle /\ CvIdle

TB_Calculate ==
    /\ tb_pc = "call"
    /\ cl_pc = "idle"
    /\ tb_pc' = "returned"
    /\ tb_out' = CalculateTokenBudget(tb_in.max_context, tb_in.system_len,
                                      tb_in.custom_len, tb_in.title_len,
                                      tb_in.output_tokens, tb_in.margin_pct)
    /\ UNCHANGED <<mgVars, psVars, tmVars, cvVars>>
    /\ UNCHANGED <<tb_in, ckVars, ppVars, clVars>>

NextBudget == TB_Calculate

SpecBudget == InitBudget /\ [][NextBudget]_vars

(***************************************************************************)
(* AIConverter.convert_large_html.                                         *)
(***************************************************************************)
SystemPromptLen == 620      \* len(AIConverter.SYSTEM_PROMPT)
RequestedOutputTokens == 4000
SafetyMarginPct == 95
ChunkBudgetPct == 80        \* max_tokens=int(budget['max_input_tokens'] * 0.8)
SmallContextLimit == 8000   \* MODEL_CONTEXT_LIMITS['meta-llama/llama-3-70b']

\* The error_message returned: None, or what it reports.
NoError == [kind |-> NoneVal, count |-> 0, entries |-> <<>>]
ChunkingFailed(n) == [kind |-> "Chunking failed", count |-> n, entries |-> <<>>]
AllChunksFailed == [kind |-> "All chunks failed to process", count |-> 0, entries |-> <<>>]
ConversionError(msg) == [kind |-> msg, count |-> 0, entries |-> <<>>]
\* "; ".join of the "Chunk k: message" entries
ChunkErrors(entries) ==
    IF entries = <<>> THEN NoError
    ELSE [kind |-> "Chunk errors", count |-> Len(entries), entries |-> entries]

\* The oversize check answering that nothing is oversized.
HasOversizedChunksNever(metadata) == FALSE

\* if chunking_metadata['oversized_chunks']:
HasOversizedChunks(metadata) == metadata.oversized_chunks # <<>>

\* The successful outputs taken from every result, failed ones included.
SuccessfulOutputsAny(results) == [k \in 1..Len(results) |-> results[k].output]

\* [r.output for r in results if r.success and r.output]
RECURSIVE SuccessfulOutputs(_)
SuccessfulOutputs(results) ==
    IF results = <<>> THEN <<>>
    ELSE LET r == Head(results)
         IN  (IF r.success /\ r.output # <<>> THEN <<r.output>> ELSE <<>>)
             \o SuccessfulOutputs(Tail(results))

\* [f"Chunk {r.chunk_index+1}: {r.error}" for r in results if not r.success]
RECURSIVE ErrorEntries(_)
ErrorEntries(results) ==
    IF results = <<>> THEN <<>>
    ELSE LET r == Head(results)
         IN  (IF ~r.success THEN <<[chunk |-> r.chunk_index + 1, message |-> r.error]>>
              ELSE <<>>)
             \o ErrorEntries(Tail(results))

\* The budget with no custom prompt and no title.
BaseBudget(max_context) ==
    CalculateTokenBudget(max_context, SystemPromptLen, 0, 0,
                         RequestedOutputTokens, SafetyMarginPct).max_input_tokens

\* Custom prompts: none, and those that leave a budget about the size of the
\* html of this model.
CustomLens(max_context) ==
    {0} \cup {BaseBudget(max_context) - b : b \in (0 - MaxDeficit)..MaxTokenLimit}

Init ==
    /\ cl_pc = "call"
    /\ cl_in \in {[html |-> h, title_len |-> t, custom_len |-> c,
                   max_context |-> SmallContextLimit, worker_count |-> w,
                   overlap |-> o] :
                    h \in Texts(MaxHtmlLen), t \in {0, 1},
                    c \in CustomLens(SmallContextLimit),
                    w \in 1..MaxWorkers, o \in Overlaps}
    /\ cl_calls = {}
    /\ cl_ret = NoneVal
    /\ CkIdle /\ PpIdle /\ TbIdle
    /\ MgIdle /\ PsIdle /\ TmIdle /\ CvIdle

\* From the entry up to the return of the direct conversion, the rejection
\* of the chunks, or the hand-over of the chunks to process_chunks.
CL_Preflight ==
    /\ cl_pc = "call"
    /\ LET budget == CalculateTokenBudget(cl_in.max_context, SystemPromptLen,
                                          cl_in.custom_len, cl_in.title_len,
                                          RequestedOutputTokens, SafetyMarginPct)
           html_tokens == count_tokens(cl_in.html)
           max_tokens == IntTrunc(budget.max_input_tokens * ChunkBudgetPct, 100)
       IN  /\ tb_pc' = "returned"
           /\ tb_in' = [max_context |-> cl_in.max_context, system_len |-> SystemPromptLen,
                        custom_len |-> cl_in.custom_len, title_len |-> cl_in.title_len,
                        output_tokens |-> RequestedOutputTokens,
                        margin_pct |-> SafetyMarginPct]
           /\ tb_out' = budget
           /\ IF html_tokens <= budget.max_input_tokens
              THEN \* return self.convert_to_markdown(html, title, custom_prompt)
                   /\ \E conv \in ConvertToMarkdownOutcomes :
                        /\ cl_pc' = IF conv.kind = "raise" THEN "raised" ELSE "returned"
                        /\ cl_ret' = IF conv.kind = "raise" THEN NoneVal
                                     ELSE [content |-> conv.md, used_ai |-> conv.used_ai,
                                           error |-> IF conv.kind = "ai" THEN NoError
                                                     ELSE ConversionError(conv.error)]
                   /\ cl_calls' = {[kind |-> "direct", index |-> 0]}
                   /\ UNCHANGED <<ckVars, ppVars>>
              ELSE /\ ck_text' = cl_in.html
                   /\ ck_max_tokens' = max_tokens
                   /\ ck_overlap' = cl_in.overlap
                   /\ \E oom \in (IF CascadeDiverges(cl_in.html, max_tokens, cl_in.overlap)
                                  THEN BOOLEAN ELSE {FALSE}) :
                        LET r == ChunkWithPreallocation(cl_in.html, max_tokens,
                                                        cl_in.overlap, oom)
                            rejected == r.kind = "returned" /\ HasOversizedChunks(r.metadata)
                            dispatch == r.kind = "returned" /\ ~HasOversizedChunks(r.metadata)
                        IN  /\ ck_pc' = r.kind
                            /\ ck_chunks' = r.chunks
                            /\ ck_metadata' = r.metadata
                            /\ cl_pc' = IF r.kind # "returned" THEN r.kind
                                        ELSE IF rejected THEN "returned" ELSE "chunked"
                            /\ cl_ret' = IF rejected
                                         THEN [content |-> <<>>, used_ai |-> FALSE,
                                               error |-> ChunkingFailed(
                                                   Len(r.metadata.oversized_chunks))]
                                         ELSE NoneVal
                            /\ pp_pc' = IF dispatch THEN "call" ELSE pp_pc
                            /\ pp_chunks' = IF dispatch THEN r.chunks ELSE pp_chunks
                            /\ pp_workers' = IF dispatch THEN cl_in.worker_count
                                             ELSE pp_workers
                   /\ cl_calls' = cl_calls
                   /\ UNCHANGED <<pp_fut, pp_yielded, pp_results, pp_return>>
    /\ UNCHANGED <<mgVars, psVars, tmVars, cvVars>>
    /\ UNCHANGED cl_in

\* A worker's call of process_single_chunk ends.
CL_ProcessSingleChunk(p) ==
    /\ pp_pc = "collect"
    /\ cl_pc = "chunked"
    /\ p \in Running
    /\ \E conv \in ConvertToMarkdownOutcomes :
         /\ pp_fut' = [pp_fut EXCEPT ![p] =
                          [state |-> "done",
                           outcome |-> Returned(ProcessSingleChunk(p - 1, pp_chunks[p], conv))]]
         /\ cl_calls' = cl_calls \cup {[kind |-> "chunk", index |-> p - 1, conv |-> conv]}
    /\ UNCHANGED <<mgVars, psVars, tmVars, cvVars>>
    /\ UNCHANGED <<pp_pc, pp_chunks, pp_workers, pp_yielded, pp_results, pp_return,
                   cl_pc, cl_in, cl_ret, ckVars, tbVars>>

\* From the return of process_chunks to the return of convert_large_html,
\* for the markdown extraction strategy.
CL_Finish ==
    /\ cl_pc = "chunked"
    /\ pp_pc = "returned"
    /\ LET results == pp_return.results
           successful_outputs == SuccessfulOutputs(results)
           merge_result == MergeMarkdownChunks(successful_outputs, cl_in.overlap)
           used_ai == \E k \in 1..Len(results) : results[k].used_ai
       IN  cl_ret' = IF successful_outputs = <<>>
                     THEN [content |-> <<>>, used_ai |-> FALSE, error |-> AllChunksFailed]
                     ELSE [content |-> merge_result.combined_text, used_ai |-> used_ai,
                           error |-> ChunkErrors(ErrorEntries(results))]
    /\ cl_pc' = "returned"
    /\ UNCHANGED <<mgVars, psVars, tmVars, cvVars>>
    /\ UNCHANGED <<cl_in, cl_calls, ckVars, ppVars, tbVars>>

Next ==
    \/ CL_Preflight
    \/ PP_Submit
    \/ \E p \in Positions : PP_Start(p)
    \/ \E p \in Positions : CL_ProcessSingleChunk(p)
    \/ \E p \in Positions : PP_Collect(p)
    \/ PP_Return
    \/ CL_Finish

Spec == Init /\ [][Next]_vars

(***************************************************************************)
(* The merger on its own: one ResultMerger and one call of                 *)
(* merge_markdown_chunks, merge_json_chunks or merge_combined_chunks.      *)
(***************************************************************************)
MaxMergeLen == 105     \* longest first chunk of a markdown merge
MaxBlocks == 2         \* most blocks in a JSON chunk
MaxMergeChunks == 3    \* most chunks in a merge

\* A text of n characters with a "." at every p-th place.
PatternText(n, p) == [i \in 1..n |-> IF i % p = 0 THEN DOT ELSE "a"]

\* ResultMerger(overlap_percentage), in percent: the default and two larger
MergeOverlaps == {10, 50, 100}

\* First chunks: of the shortest length that has an overlap window, with a
\* window that is a multiple of the search step above the minimum, and with
\* one that is none.
FirstChunks ==
    {PatternText(n, p) : n \in {60, 100, MaxMergeLen}, p \in {1, 7, 10}}

\* Second chunks: the last L characters of the first chunk and a tail.
SecondChunks(first) ==
    {LastN(first, L) \o tail :
        L \in {1} \cup (45..MaxMergeLen),
        tail \in {<<>>, <<NL>>, PatternText(40, 1)}}

MarkdownChunkLists ==
    {<<>>}
    \cup {<<t>> : t \in Texts(1) \cup {PatternText(60, 7)}}
    \cup UNION {{<<a, b>> : b \in SecondChunks(a)} : a \in FirstChunks}
    \cup UNION {{<<a, b, <<"a">>>> : b \in SecondChunks(a)} : a \in FirstChunks}

\* JSON blocks: with content and a chunk-local index, with content and no
\* index, without content, with contents that differ only after the first
\* FingerprintLen characters, and an element that is no object.
LongContent(last) == [i \in 1..(FingerprintLen + 1) |-> IF i > FingerprintLen THEN last ELSE "a"]

JsonBlocks ==
    {[content |-> <<"X">>, index |-> 0],
     [content |-> <<"Y">>, index |-> 1],
     [content |-> <<"X">>],
     [type |-> "note", index |-> 0],
     [content |-> LongContent("a"), index |-> 0],
     [content |-> LongContent("."), index |-> 1],
     Scalar("1")}

BlockLists(n) == UNION {[1..k -> JsonBlocks] : k \in 0..n}

\* A text that opens RecursionLimit arrays.
DeepText == [i \in 1..RecursionLimit |-> LBracket]

\* Chunk payloads that are no JSON array: text that is not JSON, an array
\* that is not closed, an empty payload, an object, a number, and DeepText.
MalformedPayloads ==
    {<<TokChar>>, <<LBracket, Lit([content |-> <<"X">>, index |-> 0])>>, <<>>,
     <<Lit([content |-> <<"X">>, index |-> 0])>>, <<Lit(Scalar("1"))>>, DeepText}

JsonPayloads ==
    {Dumps(Array(bs), TRUE) : bs \in BlockLists(MaxBlocks)} \cup MalformedPayloads

\* The payloads of the longer chunk lists.
CoreJsonPayloads ==
    {Dumps(Array(<<[content |-> <<"X">>, index |-> 0]>>), TRUE),
     Dumps(Array(<<[content |-> <<"X">>, index |-> 0],
                   [content |-> <<"Y">>, index |-> 1]>>), FALSE),
     <<TokChar>>}

JsonChunkLists ==
    {<<>>}
    \cup {<<a>> : a \in JsonPayloads}
    \cup {<<a, b>> : a \in JsonPayloads, b \in JsonPayloads}
    \cup UNION {[1..n -> CoreJsonPayloads] : n \in 3..MaxMergeChunks}

\* Combined payloads: what CombinedExtractionStrategy.post_process writes
\* (both formats, or its error object), and payloads that are none.
CombinedPayloads ==
    {<<Lit([markdown |-> <<TokChar>>,
            structured |-> Array(<<[content |-> <<"X">>, index |-> 0]>>),
            chunk_index |-> 0])>>,
     <<Lit([markdown |-> <<TokChar, TokChar>>,
            structured |-> Array(<<[content |-> <<"X">>, index |-> 0],
                                   [content |-> <<"Y">>, index |-> 1]>>),
            chunk_index |-> 1])>>,
     <<Lit([markdown |-> <<TokChar>>, structured |-> [title |-> "t"], chunk_index |-> 1])>>,
     <<Lit([error |-> TRUE, message |-> "Missing JSON section", raw_response |-> <<TokChar>>])>>,
     <<TokChar>>,
     <<Lit(Scalar("1"))>>,
     Dumps(Array(<<[content |-> <<"X">>, index |-> 0]>>), TRUE)}

CombinedChunkLists == UNION {[1..n -> CombinedPayloads] : n \in 0..MaxMergeChunks}

InitMerge ==
    /\ mg_pc = "call"
    /\ \/ mg_in \in {[mode |-> "markdown", chunks |-> c, overlap |-> o] :
                        c \in MarkdownChunkLists, o \in MergeOverlaps}
       \/ mg_in \in {[mode |-> "json", chunks |-> c, overlap |-> 10] :
                        c \in JsonChunkLists}
       \/ mg_in \in {[mode |-> "combined", chunks |-> c, overlap |-> 10] :
                        c \in CombinedChunkLists}
    /\ mg_out = NoneVal
    /\ CkIdle /\ PpIdle /\ TbIdle /\ ClIdle /\ PsIdle /\ TmIdle /\ CvIdle

\* merger.merge_markdown_chunks(chunks)
MergeMarkdownCall ==
    /\ mg_pc = "call"
    /\ mg_in.mode = "markdown"
    /\ mg_pc' = "returned"
    /\ mg_out' = MergeMarkdownChunks(mg_in.chunks, mg_in.overlap)
    /\ UNCHANGED <<mg_in, ckVars, ppVars, tbVars, clVars, psVars, tmVars, cvVars>>

\* The call ends: with the value returned, or with the exception raised.
MergeEnds(r) ==
    /\ mg_pc' = r.kind
    /\ mg_out' = IF r.kind = "returned" THEN r.result ELSE r.exc

\* merger.merge_json_chunks(chunks)
MergeJsonCall ==
    /\ mg_pc = "call"
    /\ mg_in.mode = "json"
    /\ MergeEnds(MergeJsonChunks(mg_in.chunks))
    /\ UNCHANGED <<mg_in, ckVars, ppVars, tbVars, clVars, psVars, tmVars, cvVars>>

\* merger.merge_combined_chunks(chunks)
MergeCombinedCall ==
    /\ mg_pc = "call"
    /\ mg_in.mode = "combined"
    /\ MergeEnds(MergeCombinedChunks(mg_in.chunks, mg_in.overlap))
    /\ UNCHANGED <<mg_in, ckVars, ppVars, tbVars, clVars, psVars, tmVars, cvVars>>

NextMerge == MergeMarkdownCall \/ MergeJsonCall \/ MergeCombinedCall

SpecMerge == InitMerge /\ [][NextMerge]_vars

(***************************************************************************)
(* The extraction strategies on their own: one call of post_process of     *)
(* the structured or of the combined strategy.                             *)
(***************************************************************************)
\* Blocks of a model response: with nothing but content, with every field,
\* without content, and an element that is no object.
ResponseBlocks ==
    {[content |-> <<"X">>],
     [content |-> <<"Y">>, index |-> 5, tags |-> Array(<<"t">>), type |-> "heading"],
     [type |-> "note"],
     Scalar("1")}

ResponseBlockLists == UNION {[1..k -> ResponseBlocks] : k \in 0..MaxBlocks}

\* A text that is not JSON and is longer than RawResponseLimit.
LongText == [i \in 1..(RawResponseLimit + 1) |-> TokChar]

\* What the model answers where an array of blocks was asked for: an
\* array, one object, a number, text that is not JSON, an array that is
\* not closed, nothing, DeepText and LongText.
StructuredPayloads ==
    {Dumps(Array(bs), TRUE) : bs \in ResponseBlockLists}
    \cup {<<Lit([content |-> <<"X">>])>>, <<Lit(Scalar("1"))>>, <<TokChar>>,
          <<LBracket, Lit([content |-> <<"X">>])>>, <<>>, DeepText, LongText}

\* The payload bare or in a code fence, with or without whitespace around.
StructuredResponses ==
    {lead \o open \o payload \o close \o trail :
        lead \in {<<>>, <<TokNewline>>},
        open \in {<<>>, <<Fence>>, <<Fence, JsonTag>>, <<Fence, JsonTag, TokNewline>>},
        payload \in StructuredPayloads,
        close \in {<<>>, <<Fence>>, <<TokNewline, Fence>>},
        trail \in {<<>>, <<TokSpace>>}}

\* The JSON segment of a combined response.
CombinedSegments ==
    {Dumps(Array(<<[content |-> <<"X">>]>>), TRUE),
     <<TokNewline, Lit([title |-> "t"]), TokNewline>>,
     <<TokChar>>, <<>>, DeepText, LongText}

\* Responses with every subset of the three markers, in the order asked
\* for and with the first two exchanged.
CombinedResponses ==
    {pre \o m \o md \o j \o seg \o e \o post :
        pre \in {<<>>, <<TokChar>>},
        m \in {<<>>, <<MarkdownMarker>>, <<JsonMarker>>},
        md \in {<<>>, <<TokNewline, TokChar, TokNewline>>},
        j \in {<<>>, <<JsonMarker>>, <<MarkdownMarker>>},
        seg \in CombinedSegments,
        e \in {<<>>, <<EndMarker>>},
        post \in {<<>>, <<TokChar>>}}

ChunkIndices == 0..1

InitPost ==
    /\ ps_pc = "call"
    /\ \/ ps_in \in {[strategy |-> "structured", response |-> r, chunk_index |-> c] :
                        r \in StructuredResponses, c \in ChunkIndices}
       \/ ps_in \in {[strategy |-> "combined", response |-> r, chunk_index |-> c] :
                        r \in CombinedResponses, c \in ChunkIndices}
    /\ ps_out = NoneVal
    /\ CkIdle /\ PpIdle /\ TbIdle /\ ClIdle /\ MgIdle /\ TmIdle /\ CvIdle

\* The call ends: with the text returned, or with the exception raised.
PostProcessEnds(r) ==
    /\ ps_pc' = r.kind
    /\ ps_out' = IF r.kind = "returned" THEN r.result ELSE r.exc

\* StructuredExtractionStrategy.post_process(response, chunk_index)
StructuredPostProcessCall ==
    /\ ps_pc = "call"
    /\ ps_in.strategy = "structured"
    /\ PostProcessEnds(StructuredPostProcess(ps_in.response, ps_in.chunk_index))
    /\ UNCHANGED <<ps_in, ckVars, ppVars, tbVars, clVars, mgVars, tmVars, cvVars>>

\* CombinedExtractionStrategy.post_process(response, chunk_index)
CombinedPostProcessCall ==
    /\ ps_pc = "call"
    /\ ps_in.strategy = "combined"
    /\ PostProcessEnds(CombinedPostProcess(ps_in.response, ps_in.chunk_index))
    /\ UNCHANGED <<ps_in, ckVars, ppVars, tbVars, clVars, mgVars, tmVars, cvVars>>

NextPost == StructuredPostProcessCall \/ CombinedPostProcessCall

SpecPost == InitPost /\ [][NextPost]_vars

(***************************************************************************)
(* The TokenManagers of one process: convert_large_html creates one per    *)
(* request and resolves the model's limit with it.                         *)
(***************************************************************************)
MaxManagers == 2       \* most TokenManagers created
MaxResolutions == 2    \* most get_model_context_limit calls

ExactId ==
    <<"o", "p", "e", "n", "a", "i", "/", "g", "p", "t", "-", "4", "o">>

FamilyId ==
    <<"g", "e", "m", "i", "n", "i">>

LongerId ==
    <<"m", "e", "t", "a", "-", "l", "l", "a", "m", "a", "/", "l", "l", "a",
      "m", "a", "-", "3", "-", "7", "0", "b", "-", "i", "n", "s", "t", "r",
      "u", "c", "t">>

UnknownId ==
    <<"z", "z">>

\* Model ids: one of the table, one that is part of several of the table's,
\* one that holds one of the table's, and one that matches nothing.
ModelIds == {ExactId, FamilyId, LongerId, UnknownId}

\* What a query of the model list can come to.
LiveLimit == 4096

LiveOutcomes ==
    {[kind |-> k, context_length |-> 0] : k \in {"error", "timeout", "absent"}}
    \cup {[kind |-> "found", context_length |-> LiveLimit]}

NoCalls == [m \in ModelIds |-> 0]

InitLimit ==
    /\ tm_caches = <<>>
    /\ tm_calls = <<>>
    /\ tm_queries = NoCalls
    /\ tm_writes = NoCalls
    /\ CkIdle /\ PpIdle /\ TbIdle /\ ClIdle /\ MgIdle /\ PsIdle /\ CvIdle

\* token_mgr = TokenManager(self.api_key)
TM_Create(api_key) ==
    /\ Len(tm_caches) < MaxManagers
    /\ tm_caches' = Append(tm_caches, [api_key |-> api_key, cache |-> <<>>])
    /\ UNCHANGED <<tm_calls, tm_queries, tm_writes>>
    /\ UNCHANGED <<ckVars, ppVars, tbVars, clVars, mgVars, psVars, cvVars>>

\* The query a call did not make.
NoQuery == [kind |-> "none", context_length |-> 0]

\* The call of manager k ends with result r; `live` is what its query of the
\* model list came to.
TM_Returns(k, model_id, live, r) ==
    /\ tm_caches' = [tm_caches EXCEPT ![k].cache =
                        IF r.wrote THEN CacheWith(@, model_id, r.limit) ELSE @]
    /\ tm_calls' = Append(tm_calls, [manager |-> k, model_id |-> model_id,
                                     live |-> IF r.queried THEN live ELSE NoQuery,
                                     result |-> r])
    /\ tm_queries' = [tm_queries EXCEPT ![model_id] = @ + (IF r.queried THEN 1 ELSE 0)]
    /\ tm_writes' = [tm_writes EXCEPT ![model_id] = @ + (IF r.wrote THEN 1 ELSE 0)]

\* token_mgr.get_model_context_limit(model_id), of the k-th manager
TM_GetModelContextLimit(k, model_id, live) ==
    /\ k \in 1..Len(tm_caches)
    /\ Len(tm_calls) < MaxResolutions
    /\ TM_Returns(k, model_id, live, GetModelContextLimit(tm_caches[k], model_id, live))
    /\ UNCHANGED <<ckVars, ppVars, tbVars, clVars, mgVars, psVars, cvVars>>

NextLimit ==
    \/ \E api_key \in BOOLEAN : TM_Create(api_key)
    \/ \E k \in 1..MaxManagers, model_id \in ModelIds, live \in LiveOutcomes :
          TM_GetModelContextLimit(k, model_id, live)

SpecLimit == InitLimit /\ [][NextLimit]_vars

(***************************************************************************)
(* One AIConverter.convert_to_markdown call, step by step (SpecConvert).   *)
(* The remote model, trafilatura.extract and html2text's handle are        *)
(* external: each answers with one of the outcomes below.  cv_tried lists  *)
(* the converters tried so far, one entry per remote attempt.              *)
(***************************************************************************)
\* max_retries of _convert_with_ai
MaxRetries == 3

\* len(markdown.strip()) > 50
MinContentLen == 50

Run(n) == [i \in 1..n |-> "a"]

PageTitle == <<"T">>

\* f"# {title}\n\n"
TitleHeading(title) == <<"#", SP>> \o title \o <<NL, NL>>

ConvertInputs ==
    {[api_key |-> k, use_ai |-> u, title |-> t] :
        k \in BOOLEAN, u \in BOOLEAN, t \in {<<>>, PageTitle}}

\* What one pass of _convert_with_ai ends in: a 200 with a message content,
\* a 200 whose body lacks choices[0].message.content, a 429, another
\* status, a timeout, another RequestException; or, before any request,
\* the failure of "from preprocessing import count_tokens" (preprocessing.py
\* of this repository defines no count_tokens).
RemoteReplies ==
    {[kind |-> "content", text |-> m] : m \in {<<"a">>, <<SP, "a", NL>>}}
    \cup {[kind |-> k, text |-> <<>>] :
             k \in {"malformed", "rate_limited", "api_error", "timeout", "network",
                    "import_error"}}

\* The exception message _convert_with_ai leaves with after a reply that is
\* its last, attempt counted from 0.
RemoteErrorMessage(reply) ==
    CASE reply.kind = "malformed" -> "'choices'"
      [] reply.kind = "rate_limited" -> "Rate limited after 3 attempts"
      [] reply.kind = "api_error" -> "API error 500: "
      [] reply.kind = "timeout" -> "Request timeout after retries"
      [] reply.kind = "network" -> "Request failed: "
      [] reply.kind = "import_error" -> "cannot import name 'count_tokens' from 'preprocessing'"

\* A 429 and a timeout are retried while attempt < max_retries - 1.
RemoteRetried(reply, attempt) ==
    reply.kind \in {"rate_limited", "timeout"} /\ attempt < MaxRetries - 1

\* What trafilatura.extract ends in: a text or None, an exception, or no
\* answer within the 30 seconds.
ExtractReplies ==
    {[kind |-> "text", text |-> m] :
        m \in {<<>>, Run(MinContentLen - 5), Run(MinContentLen), Run(MinContentLen + 1),
               <<SP>> \o Run(MinContentLen) \o <<NL>>,
               TitleHeading(PageTitle) \o Run(MinContentLen - 5)}}
    \cup {[kind |-> k, text |-> <<>>] : k \in {"none", "exception", "timeout"}}

\* What html2text's handle ends in.
HandleReplies ==
    {[kind |-> "text", text |-> m] : m \in {<<>>, <<"a", NL>>}}
    \cup {[kind |-> k, text |-> <<>>] : k \in {"exception", "timeout"}}

\* _convert_with_trafilatura_unsafe for an extract() that returned `text`:
\* no content raises ValueError, else the title heading is put in front
\* unless the text starts with it, and the whole is stripped.
TrafilaturaRaises(reply) ==
    reply.kind # "text" \/ reply.text = <<>>

TrafilaturaMarkdown(text, title) ==
    IF title # <<>> /\ ~StartsWith(text, <<"#", SP>> \o title)
    THEN PostProcessMarkdown(TitleHeading(title) \o text)
    ELSE PostProcessMarkdown(text)

\* if markdown and len(markdown.strip()) > 50
Sufficient(markdown) ==
    markdown # <<>> /\ Len(PostProcessMarkdown(markdown)) > MinContentLen

\* _convert_with_html2text_unsafe: the heading, then text.strip()
Html2textMarkdown(text, title) ==
    (IF title # <<>> THEN TitleHeading(title) ELSE <<>>) \o PostProcessMarkdown(text)

\* The tuple (markdown_content, used_ai, error_message) the call returns.
ConvertReturns(markdown, used_ai, error) ==
    [markdown |-> markdown, used_ai |-> used_ai, error |-> error]

ConvertRaises(exception) == [exception |-> exception]

RemoteAttempts == Len(SelectSeq(cv_tried, LAMBDA c : c = "remote"))

InitConvert ==
    /\ cv_pc = "call"
    /\ cv_in \in ConvertInputs
    /\ cv_error = NoneVal
    /\ cv_tried = <<>>
    /\ cv_out = NoneVal
    /\ CkIdle /\ PpIdle /\ TbIdle /\ ClIdle
    /\ MgIdle /\ PsIdle /\ TmIdle

\* if self.api_key and use_ai: ... else: error_msg = "No API key provided"
CV_Enter ==
    /\ cv_pc = "call"
    /\ IF cv_in.api_key /\ cv_in.use_ai
       THEN cv_pc' = "remote" /\ cv_error' = cv_error
       ELSE cv_pc' = "trafilatura" /\ cv_error' = "No API key provided"
    /\ UNCHANGED <<cv_in, cv_tried, cv_out>>
    /\ UNCHANGED <<ckVars, ppVars, tbVars, clVars, mgVars, psVars, tmVars>>

\* One pass of the retry loop of _convert_with_ai, and what
\* convert_to_markdown does when _convert_with_ai returns or raises.
CV_Remote(reply) ==
    /\ cv_pc = "remote"
    /\ cv_tried' = Append(cv_tried, "remote")
    /\ IF reply.kind = "content"
       THEN /\ cv_pc' = "returned"
            /\ cv_out' = ConvertReturns(PostProcessMarkdown(reply.text), TRUE, NoneVal)
            /\ cv_error' = cv_error
       ELSE IF RemoteRetried(reply, RemoteAttempts)
       THEN UNCHANGED <<cv_pc, cv_out, cv_error>>
       ELSE /\ cv_pc' = "trafilatura"
            /\ cv_error' = RemoteErrorMessage(reply)
            /\ cv_out' = cv_out
    /\ UNCHANGED cv_in
    /\ UNCHANGED <<ckVars, ppVars, tbVars, clVars, mgVars, psVars, tmVars>>

\* markdown = self._convert_with_trafilatura(html, title, timeout=30)
CV_Trafilatura(reply) ==
    /\ cv_pc = "trafilatura"
    /\ cv_tried' = Append(cv_tried, "trafilatura")
    /\ IF ~TrafilaturaRaises(reply) /\ Sufficient(TrafilaturaMarkdown(reply.text, cv_in.title))
       THEN /\ cv_pc' = "returned"
            /\ cv_out' = ConvertReturns(TrafilaturaMarkdown(reply.text, cv_in.title), FALSE, cv_error)
       ELSE /\ cv_pc' = "html2text"
            /\ cv_out' = cv_out
    /\ UNCHANGED <<cv_in, cv_error>>
    /\ UNCHANGED <<ckVars, ppVars, tbVars, clVars, mgVars, psVars, tmVars>>

\* markdown = self._convert_with_html2text(html, title, timeout=30)
CV_Html2text(reply) ==
    /\ cv_pc = "html2text"
    /\ cv_tried' = Append(cv_tried, "html2text")
    /\ IF reply.kind = "text"
       THEN /\ cv_pc' = "returned"
            /\ cv_out' = ConvertReturns(Html2textMarkdown(reply.text, cv_in.title), FALSE, cv_error)
       ELSE /\ cv_pc' = "raised"
            /\ cv_out' = ConvertRaises(IF reply.kind = "timeout" THEN "TimeoutError" ELSE "Exception")
    /\ UNCHANGED <<cv_in, cv_error>>
    /\ UNCHANGED <<ckVars, ppVars, tbVars, clVars, mgVars, psVars, tmVars>>

NextConvert ==
    \/ CV_Enter
    \/ \E reply \in RemoteReplies : CV_Remote(reply)
    \/ \E reply \in ExtractReplies : CV_Trafilatura(reply)
    \/ \E reply \in HandleReplies : CV_Html2text(reply)

SpecConvert == InitConvert /\ [][NextConvert]_vars

(***************************************************************************)
(* The request made for one chunk (SpecPrompt): process_single_chunk       *)
(* builds the strategy's prompt and then calls convert_to_markdown, whose  *)
(* remote step _convert_with_ai builds the messages it posts.  A prompt is *)
(* [system, user]: the system prompt by the name of its text, the user     *)
(* prompt as the list of the parts joined by newlines.  A part is given by *)
(* its wording, the numbers put into it and the text put into it.          *)
(***************************************************************************)
PromptPart(wording, index, total, text) ==
    [wording |-> wording, index |-> index, total |-> total, text |-> text]

Prompt(system, user) == [system |-> system, user |-> user]

\* MarkdownExtractionStrategy.DEFAULT_SYSTEM_PROMPT and
\* AIConverter.SYSTEM_PROMPT are the same text.
MarkdownSystemPrompt == "You are a content extraction specialist."
StructuredSystemPrompt == "You are a web content extraction expert."
CombinedSystemPrompt == "You are a dual-mode content extraction expert."

ExtractionStrategies == {"markdown", "structured", "combined"}

\* The parts a prompt has when its condition holds.
PartIf(cond, part) == IF cond THEN <<part>> ELSE <<>>

\* MarkdownExtractionStrategy.build_prompt
MarkdownBuildPrompt(instruction, html, title, chunk_index, total_chunks) ==
    Prompt(MarkdownSystemPrompt,
           <<PromptPart("Convert the following HTML to clean markdown.", 0, 0, <<>>)>>
           \o PartIf(total_chunks > 1,
                     PromptPart("Note: This is chunk i of n. Extract content naturally",
                                chunk_index + 1, total_chunks, <<>>))
           \o PartIf(instruction # <<>>,
                     PromptPart("Additional Instructions:[newline]", 0, 0, instruction))
           \o PartIf(title # <<>> /\ chunk_index = 0, PromptPart("Page Title: ", 0, 0, title))
           \o <<PromptPart("HTML:[newline]", 0, 0, html)>>)

\* StructuredExtractionStrategy.build_prompt, without a schema
StructuredBuildPrompt(instruction, html, title, chunk_index, total_chunks) ==
    Prompt(StructuredSystemPrompt,
           <<PromptPart("Extract content blocks from the following HTML as a JSON array.",
                        0, 0, <<>>)>>
           \o PartIf(total_chunks > 1,
                     PromptPart("Note: This is chunk i of n. Start block indices from",
                                chunk_index + 1, total_chunks, <<>>))
           \o PartIf(instruction # <<>>,
                     PromptPart("Additional Instructions: ", 0, 0, instruction))
           \o PartIf(title # <<>>, PromptPart("Page Title: ", 0, 0, title))
           \o <<PromptPart("HTML:[newline]", 0, 0, html)>>)

\* CombinedExtractionStrategy.build_prompt
CombinedBuildPrompt(instruction, html, title, chunk_index, total_chunks) ==
    Prompt(CombinedSystemPrompt,
           <<PromptPart("Extract the following HTML in BOTH markdown and JSON formats.",
                        0, 0, <<>>)>>
           \o PartIf(total_chunks > 1,
                     PromptPart("Note: Chunk i of n.", chunk_index + 1, total_chunks, <<>>))
           \o PartIf(instruction # <<>>, PromptPart("Instructions: ", 0, 0, instruction))
           \o PartIf(title # <<>> /\ chunk_index = 0, PromptPart("Page Title: ", 0, 0, title))
           \o <<PromptPart("HTML:[newline]", 0, 0, html)>>)

\* get_strategy(extraction_strategy, instruction=custom_prompt).build_prompt(...)
BuildPrompt(strategy, instruction, html, title, chunk_index, total_chunks) ==
    CASE strategy = "structured" ->
            StructuredBuildPrompt(instruction, html, title, chunk_index, total_chunks)
      [] strategy = "combined" ->
            CombinedBuildPrompt(instruction, html, title, chunk_index, total_chunks)
      [] OTHER -> MarkdownBuildPrompt(instruction, html, title, chunk_index, total_chunks)

\* The system and user messages of the payload _convert_with_ai posts.
ConvertWithAiMessages(html, title, custom_prompt) ==
    Prompt(MarkdownSystemPrompt,
           <<PromptPart("Convert the following HTML to clean markdown.", 0, 0, <<>>)>>
           \o PartIf(custom_prompt # <<>>,
                     PromptPart("Additional Instructions:[newline]", 0, 0, custom_prompt))
           \o PartIf(title # <<>>, PromptPart("Page Title: ", 0, 0, title))
           \o <<PromptPart("HTML:[newline]", 0, 0, html)>>)

\* chunk_title = title if chunk_idx == 0 else ""
ChunkTitle(title, chunk_idx) == IF chunk_idx = 0 THEN title ELSE <<>>

\* What process_single_chunk does up to the remote request for chunk
\* chunk_idx: the prompts it builds and the messages that are posted.
ChunkRequest(strategy, custom_prompt, chunks, title, chunk_idx) ==
    [index |-> chunk_idx,
     prompts |-> BuildPrompt(strategy, custom_prompt, chunks[chunk_idx + 1],
                             ChunkTitle(title, chunk_idx), chunk_idx, Len(chunks)),
     request |-> ConvertWithAiMessages(chunks[chunk_idx + 1],
                                       ChunkTitle(title, chunk_idx), custom_prompt)]

InitPrompt ==
    /\ cl_pc = "chunked"
    /\ cl_in \in {[strategy |-> s, chunks |-> [p \in 1..n |-> <<"a">>],
                   title |-> t, custom_prompt |-> c] :
                    s \in ExtractionStrategies, n \in 1..MaxChunks,
                    t \in {<<>>, PageTitle}, c \in {<<>>, <<"c">>}}
    /\ cl_calls = {}
    /\ cl_ret = NoneVal
    /\ CkIdle /\ PpIdle /\ TbIdle
    /\ MgIdle /\ PsIdle /\ TmIdle /\ CvIdle

\* process_single_chunk(chunk_idx, chunk, args) reaches the remote request
CL_RequestChunk(chunk_idx) ==
    /\ cl_pc = "chunked"
    /\ chunk_idx \in 0..(Len(cl_in.chunks) - 1)
    /\ \A c \in cl_calls : c.index # chunk_idx
    /\ cl_calls' = cl_calls \cup {ChunkRequest(cl_in.strategy, cl_in.custom_prompt,
                                               cl_in.chunks, cl_in.title, chunk_idx)}
    /\ UNCHANGED <<cl_pc, cl_in, cl_ret>>
    /\ UNCHANGED <<ckVars, ppVars, tbVars, mgVars, psVars, tmVars, cvVars>>

NextPrompt == \E chunk_idx \in 0..(MaxChunks - 1) : CL_RequestChunk(chunk_idx)

SpecPrompt == InitPrompt /\ [][NextPrompt]_vars

(***************************************************************************)
(* Properties of process_chunks (SpecParallel).                            *)
(***************************************************************************)
\* C1: whatever the worker count and the completion order, process_chunks
\* returns exactly one result per chunk, in ascending chunk_index order
\* 0..N-1.
C1_ResultsInChunkOrder ==
    pp_pc = "returned" =>
        /\ Len(pp_return.results) = Len(pp_chunks)
        /\ \A p \in 1..Len(pp_chunks) : pp_return.results[p].chunk_index = p - 1

\* C1 case: a call has returned whose futures were collected out of chunk order.
C1_Witness ==
    /\ pp_pc = "returned"
    /\ \E p, q \in 1..Len(pp_results) :
         p < q /\ pp_results[p].chunk_index > pp_results[q].chunk_index

\* C2: when process_func raises for a chunk, process_chunks still returns;
\* that chunk yields a failed ChunkResult with its own chunk_index and the
\* exception's message, and every other chunk's result is returned as
\* process_func produced it.
C2_FailureStaysLocal ==
    pp_pc = "returned" =>
        /\ Len(pp_return.results) = Len(pp_chunks)
        /\ \A p \in 1..Len(pp_chunks) :
             IF pp_fut[p].outcome.kind = "exception"
             THEN /\ pp_return.results[p].chunk_index = p - 1
                  /\ ~pp_return.results[p].success
                  /\ pp_return.results[p].error = pp_fut[p].outcome.exc
                  /\ pp_return.results[p].output = NoneText
             ELSE pp_return.results[p] = pp_fut[p].outcome.result

\* C2 case: a call has returned in which process_func raised for one chunk,
\* reported failure for another and succeeded for a third.
C2_Witness ==
    /\ pp_pc = "returned"
    /\ \E p, q, r \in 1..Len(pp_chunks) :
         /\ pp_fut[p].outcome.kind = "exception"
         /\ pp_fut[q].outcome.kind = "result" /\ pp_fut[q].outcome.result.success
         /\ pp_fut[r].outcome.kind = "result" /\ ~pp_fut[r].outcome.result.success

(***************************************************************************)
(* Properties of chunk_with_preallocation (SpecChunk).                     *)
(***************************************************************************)
ChunkTokens(i) == count_tokens(ck_chunks[i])

IsSplit == ck_pc = "returned" /\ ck_metadata.strategy # "no_chunking"

\* C3 as stated: a text within max_tokens comes back as one chunk equal to
\* the text, with strategy "none" and no oversized chunk.
C3_StrategyNone ==
    (ck_pc # "call" /\ count_tokens(ck_text) <= ck_max_tokens) =>
        /\ ck_pc = "returned"
        /\ ck_chunks = <<ck_text>>
        /\ ck_metadata.strategy = "none"
        /\ ck_metadata.oversized_chunks = <<>>

\* C3 amended: a text within max_tokens comes back as one chunk equal to the
\* text, with strategy "no_chunking" and no oversized chunk.
C3_StrategyNoChunking ==
    (ck_pc # "call" /\ count_tokens(ck_text) <= ck_max_tokens) =>
        /\ ck_pc = "returned"
        /\ ck_chunks = <<ck_text>>
        /\ ck_metadata.strategy = "no_chunking"
        /\ ck_metadata.oversized_chunks = <<>>

\* C3 case: a non-empty text of exactly max_tokens tokens was chunked.
C3_Witness ==
    /\ ck_pc = "returned"
    /\ ck_text # <<>>
    /\ count_tokens(ck_text) = ck_max_tokens

\* C4: when a text is split under a positive max_tokens, every chunk has at
\* most target_tokens_per_chunk tokens; the one exception is a single chunk
\* that is listed in oversized_chunks.
C4_ChunksWithinTarget ==
    (IsSplit /\ ck_max_tokens >= 1) =>
        \A i \in 1..Len(ck_chunks) :
            \/ ChunkTokens(i) <= ck_metadata.target_tokens_per_chunk
            \/ /\ Len(ck_chunks) = 1
               /\ \E k \in 1..Len(ck_metadata.oversized_chunks) :
                    ck_metadata.oversized_chunks[k] = <<1, ChunkTokens(1)>>

\* Every unit 1..n is in a chunk, each chunk is a run of consecutive units,
\* and the chunks follow each other in source order.
CoversInOrder(chunkUnits, n) ==
    /\ \A u \in 1..n : \E k \in 1..Len(chunkUnits) :
          \E j \in 1..Len(chunkUnits[k]) : chunkUnits[k][j] = u
    /\ \A k \in 1..Len(chunkUnits) :
          /\ chunkUnits[k] # <<>>
          /\ \A j \in 1..(Len(chunkUnits[k]) - 1) :
                chunkUnits[k][j + 1] = chunkUnits[k][j] + 1
    /\ \A k \in 1..(Len(chunkUnits) - 1) :
          /\ chunkUnits[k][1] <= chunkUnits[k + 1][1]
          /\ chunkUnits[k][Len(chunkUnits[k])] <= chunkUnits[k + 1][Len(chunkUnits[k + 1])]

\* the chunks returned are the units chunkUnits names, joined by sep
ChunksAre(units, chunkUnits, sep) ==
    /\ ck_chunks = JoinChunks(units, chunkUnits, sep)
    /\ CoversInOrder(chunkUnits, Len(units))

\* C5: when a text is split into several chunks, every paragraph, sentence
\* or word of it (according to the strategy used) is in at least one chunk
\* and the units keep their source order: none is dropped, some are repeated
\* at chunk boundaries.
C5_NoUnitDropped ==
    (ck_pc = "returned" /\ Len(ck_chunks) > 1) =>
        LET target == ck_metadata.target_tokens_per_chunk
        IN  CASE ck_metadata.strategy = "ParagraphChunkingStrategy" ->
                   ChunksAre(SplitParagraphs(ck_text),
                             ParagraphChunkUnits(ck_text, target, ck_overlap), <<NL, NL>>)
              [] ck_metadata.strategy = "SentenceChunkingStrategy" ->
                   ChunksAre(SplitSentences(ck_text),
                             SentenceChunkUnits(ck_text, target, ck_overlap), <<DOT, SP>>)
              [] ck_metadata.strategy = "WordChunkingStrategy" ->
                   ChunksAre(SplitWords(ck_text),
                             WordChunkUnits(ck_text, target, ck_overlap), <<SP>>)
              [] OTHER -> FALSE

\* C5 case: the paragraph strategy split a text and carried a paragraph over
\* into the next chunk.
C5_Witness ==
    /\ ck_pc = "returned"
    /\ ck_metadata.strategy = "ParagraphChunkingStrategy"
    /\ LET cu == ParagraphChunkUnits(ck_text, ck_metadata.target_tokens_per_chunk, ck_overlap)
       IN  \E k \in 1..(Len(cu) - 1) : cu[k][Len(cu[k])] = cu[k + 1][1]

\* C6: after a split, oversized_chunks holds exactly one entry
\* (position, actual_tokens) for each chunk with more tokens than the
\* original max_tokens, and none for a chunk within max_tokens.
C6_OversizedExact ==
    IsSplit =>
        LET entries == ck_metadata.oversized_chunks
            Entry(i) == <<i, ChunkTokens(i)>>
        IN  /\ \A i \in 1..Len(ck_chunks) :
                 (ChunkTokens(i) > ck_max_tokens) <=>
                     (\E k \in 1..Len(entries) : entries[k] = Entry(i))
            /\ \A k \in 1..Len(entries) :
                 /\ entries[k][1] \in 1..Len(ck_chunks)
                 /\ entries[k] = Entry(entries[k][1])
            /\ \A k, l \in 1..Len(entries) : entries[k][1] = entries[l][1] => k = l

\* C6 case: a split returned a chunk over max_tokens and a chunk that is
\* over the pre-allocated target but within max_tokens.
C6_Witness ==
    /\ IsSplit
    /\ \E i \in 1..Len(ck_chunks) : ChunkTokens(i) > ck_max_tokens
    /\ \E i \in 1..Len(ck_chunks) :
         /\ ChunkTokens(i) > ck_metadata.target_tokens_per_chunk
         /\ ChunkTokens(i) <= ck_max_tokens

\* C7: with max_tokens = 1, every text of more than one token is chunked
\* without an exception and with a non-empty oversized_chunks.
C7_TinyLimitReportsOversized ==
    (ck_pc # "call" /\ ck_max_tokens = 1 /\ count_tokens(ck_text) > 1) =>
        /\ ck_pc = "returned"
        /\ ck_metadata.oversized_chunks # <<>>

(***************************************************************************)
(* Properties of convert_large_html (Spec).                                *)
(***************************************************************************)
NoChunkSubmitted == \A c \in cl_calls : c.kind # "chunk"

\* C8: when chunking reports oversized chunks, convert_large_html returns an
\* error with empty output and never hands a chunk to the converter.
C8_OversizedRejected ==
    (ck_pc = "returned" /\ ck_metadata.oversized_chunks # <<>>) =>
        /\ cl_pc = "returned"
        /\ cl_ret.content = <<>>
        /\ cl_ret.error.kind # NoneVal
        /\ NoChunkSubmitted
        /\ pp_pc = "idle"

\* C8 case: the html was split into several chunks, one of them oversized.
C8_Witness ==
    /\ cl_pc = "returned"
    /\ ck_pc = "returned"
    /\ Len(ck_chunks) > 1
    /\ ck_metadata.oversized_chunks # <<>>

\* C9: when the budget has max_input_tokens <= 0, convert_large_html returns
\* an error for a non-empty html, without raising and without any converter
\* call.
C9_BudgetExhaustedReported ==
    (cl_pc # "call" /\ tb_out.max_input_tokens <= 0 /\ cl_in.html # <<>>) =>
        /\ cl_pc = "returned"
        /\ cl_ret.error.kind # NoneVal
        /\ cl_calls = {}

(***************************************************************************)
(* Properties of calculate_token_budget (SpecBudget).                      *)
(***************************************************************************)
\* C10: max_input_tokens = floor(max_context * safety_margin) - output_tokens
\* - overhead_tokens, the overhead being the system prompt's, the custom
\* instructions' and the title's tokens; 128000, 0.95, 500 and 4000 give 117100.
C10_BudgetFormula ==
    tb_pc = "returned" =>
        LET title_tokens == IF tb_in.title_len > 0
                            THEN PageTitlePrefixLen + tb_in.title_len
                            ELSE 0
            overhead == tb_in.system_len + tb_in.custom_len + title_tokens
        IN  /\ tb_out.overhead_tokens = overhead
            /\ tb_out.max_input_tokens =
                   ((tb_in.max_context * tb_in.margin_pct) \div 100)
                   - tb_in.output_tokens - overhead
            /\ (/\ tb_in.max_context = 128000 /\ tb_in.margin_pct = 95
                /\ overhead = 500 /\ tb_in.output_tokens = 4000)
               => tb_out.max_input_tokens = 117100

\* C10 case: the budget of a titled request with custom instructions.
C10_Witness ==
    /\ tb_pc = "returned"
    /\ tb_in.title_len > 0
    /\ tb_in.custom_len > 0
    /\ tb_in.max_context = 128000 /\ tb_in.margin_pct = 95

\* The results process_chunks returned to convert_large_html.
ChunkedReturn == cl_pc = "returned" /\ pp_pc = "returned"

FailedPositions == {k \in 1..Len(pp_return.results) : ~pp_return.results[k].success}

SucceededPositions == {k \in 1..Len(pp_return.results) : pp_return.results[k].success}

\* C11: on the chunked path, when every chunk's conversion failed,
\* convert_large_html returns empty output, used_ai = False and the single
\* aggregate error "All chunks failed to process", with no per-chunk text.
C11_TotalFailureAggregated ==
    (ChunkedReturn /\ SucceededPositions = {}) =>
        /\ cl_ret.content = <<>>
        /\ cl_ret.used_ai = FALSE
        /\ cl_ret.error = AllChunksFailed

\* C11 case: several chunks were processed and all failed, one because the
\* remote conversion failed and one because the last local extractor raised.
C11_Witness ==
    /\ ChunkedReturn
    /\ SucceededPositions = {}
    /\ \E k, l \in FailedPositions :
         /\ pp_return.results[k].error = RemoteError
         /\ pp_return.results[l].error = FallbackFailure

\* The outputs of the successful results, in result order.
RECURSIVE SucceededOutputs(_)
SucceededOutputs(results) ==
    IF results = <<>> THEN <<>>
    ELSE (IF Head(results).success THEN <<Head(results).output>> ELSE <<>>)
         \o SucceededOutputs(Tail(results))

\* C12: on the chunked path, when at least one chunk succeeded and at least
\* one failed, convert_large_html returns the merge of the successful
\* chunks' outputs in ascending chunk_index order and an error summary with
\* exactly one "Chunk k: message" entry per failed chunk, in chunk order,
\* and none for a successful chunk.
C12_PartialResultWithErrors ==
    (ChunkedReturn /\ SucceededPositions # {} /\ FailedPositions # {}) =>
        LET results == pp_return.results
            entries == cl_ret.error.entries
        IN  /\ cl_ret.content =
                   MergeMarkdownChunks(SucceededOutputs(results), cl_in.overlap).combined_text
            /\ Len(entries) = Cardinality(FailedPositions)
            /\ \A k \in FailedPositions :
                 \E e \in 1..Len(entries) :
                     entries[e] = [chunk |-> results[k].chunk_index + 1,
                                   message |-> results[k].error]
            /\ \A e, f \in 1..Len(entries) :
                 e < f => entries[e].chunk < entries[f].chunk

(***************************************************************************)
(* Properties of the merger (SpecMerge).                                   *)
(***************************************************************************)
MergeDone(mode) == mg_pc \in {"returned", "raised"} /\ mg_in.mode = mode

\* C13: merging a list of one chunk, markdown or JSON, returns that chunk
\* unchanged as combined_text, with overlap_removed = 0, chunk_count = 1 and
\* deduplicated_length = original_length.
C13_SingleChunkUnchanged ==
    ((MergeDone("markdown") \/ MergeDone("json")) /\ Len(mg_in.chunks) = 1) =>
        /\ mg_pc = "returned"
        /\ mg_out.combined_text = mg_in.chunks[1]
        /\ mg_out.overlap_removed = 0
        /\ mg_out.chunk_count = 1
        /\ mg_out.deduplicated_length = mg_out.original_length

\* C13 case: a JSON merge of one chunk whose text a parse and a
\* serialisation would not give back: its block's index is not its position.
C13_Witness ==
    /\ MergeDone("json")
    /\ mg_pc = "returned"
    /\ Len(mg_in.chunks) = 1
    /\ LET parsed == Loads(mg_in.chunks[1])
       IN  /\ parsed.kind = "value"
           /\ IsList(parsed.val)
           /\ Reindex(parsed.val.array) # parsed.val.array

\* The lengths L, from the minimum overlap up to the overlap window of chunk
\* a, for which chunk b begins with the last L characters of a.
DuplicatedSpans(a, b, ov) ==
    {L \in MinOverlap..IntTrunc(Len(a) * ov, 100) : StartsWith(b, LastN(a, L))}

Largest(S) == CHOOSE x \in S : \A y \in S : y <= x

\* C14: when chunk B begins with the last L characters of chunk A, L at
\* least the minimum overlap and at most A's overlap window, the markdown
\* merge strips a duplicated span from B and reports an overlap_removed
\* that is L to within the search step (the longest such L is taken).
C14_InjectedOverlapRemoved ==
    (MergeDone("markdown") /\ Len(mg_in.chunks) = 2) =>
        LET a == mg_in.chunks[1]
            b == mg_in.chunks[2]
            spans == DuplicatedSpans(a, b, mg_in.overlap)
        IN  spans # {} =>
                /\ mg_out.overlap_removed <= Largest(spans)
                /\ Largest(spans) - mg_out.overlap_removed < OverlapSearchStep
                /\ StartsWith(b, LastN(a, mg_out.overlap_removed))

\* The text C15 describes for the first k chunks: chunk k follows the text
\* before it directly when an overlap was stripped from it, and after the
\* separator when none was.
RECURSIVE JoinedWhereNoOverlap(_, _, _)
JoinedWhereNoOverlap(chunks, k, ov) ==
    IF k = 1 THEN chunks[1]
    ELSE LET merged_chunks == MergeLoop(chunks, k - 1, ov)[1]
             removed == RemoveOverlap(merged_chunks[k - 1], chunks[k], ov)
         IN  JoinedWhereNoOverlap(chunks, k - 1, ov)
             \o (IF removed[2] > 0 THEN removed[1]
                 ELSE MarkdownSeparator \o chunks[k])

\* C15: merge_markdown_chunks puts the separator before chunk i only when no
\* overlap was removed from chunk i; a chunk whose overlap prefix was
\* stripped follows the preceding text directly.
C15_SeparatorOnlyWithoutOverlap ==
    (MergeDone("markdown") /\ Len(mg_in.chunks) >= 2) =>
        mg_out.combined_text =
            JoinedWhereNoOverlap(mg_in.chunks, Len(mg_in.chunks), mg_in.overlap)

\* The chunks of a JSON merge are all JSON arrays.
AllArrays(chunks) ==
    \A k \in 1..Len(chunks) :
        Loads(chunks[k]).kind = "value" /\ IsList(Loads(chunks[k]).val)

\* The blocks of all chunks, in order, each with the number of its chunk.
RECURSIVE BlocksOf(_, _)
BlocksOf(chunks, k) ==
    IF k > Len(chunks) THEN <<>>
    ELSE LET blocks == Loads(chunks[k]).val.array
         IN  [j \in 1..Len(blocks) |-> [chunk |-> k, block |-> blocks[j]]]
             \o BlocksOf(chunks, k + 1)

\* C16's rule over the blocks from position k on: `contents` and `wholes`
\* are the fingerprints met so far (the first FingerprintLen characters of a
\* content, or the whole block when it has no content).
\* <<blocks kept, number dropped>>
RECURSIVE KeptByFingerprint(_, _, _, _, _, _)
KeptByFingerprint(tagged, k, contents, wholes, kept, dropped) ==
    IF k > Len(tagged) THEN <<kept, dropped>>
    ELSE LET block == tagged[k].block
             known == IF HasContent(block) THEN Fingerprint(block) \in contents
                      ELSE block \in wholes
             contents2 == IF HasContent(block) THEN contents \cup {Fingerprint(block)}
                          ELSE contents
             wholes2 == IF HasContent(block) THEN wholes ELSE wholes \cup {block}
         IN  IF tagged[k].chunk > 1 /\ known
             THEN KeptByFingerprint(tagged, k + 1, contents, wholes, kept, dropped + 1)
             ELSE KeptByFingerprint(tagged, k + 1, contents2, wholes2,
                                    Append(kept, block), dropped)

\* C16: merge_json_chunks keeps chunk 0's blocks and, for each later block
\* in order, drops it iff its fingerprint is already in the accumulated set
\* and otherwise appends it and records the fingerprint; overlap_removed is
\* the number of blocks dropped.  (Blocks are compared after the final
\* renumbering of their index.)
C16_DedupByFingerprint ==
    (MergeDone("json") /\ Len(mg_in.chunks) >= 2 /\ AllArrays(mg_in.chunks)) =>
        LET expected == KeptByFingerprint(BlocksOf(mg_in.chunks, 1), 1, {}, {}, <<>>, 0)
            merged == Loads(mg_out.combined_text)
        IN  /\ mg_pc = "returned"
            /\ merged.kind = "value"
            /\ merged.val = Array(Reindex(expected[1]))
            /\ mg_out.overlap_removed = expected[2]

\* Every block of every chunk is an object with an index field.
AllIndexedObjects(chunks) ==
    /\ AllArrays(chunks)
    /\ \A k \in 1..Len(chunks) :
         LET blocks == Loads(chunks[k]).val.array
         IN  \A j \in 1..Len(blocks) : IsDict(blocks[j]) /\ "index" \in DOMAIN blocks[j]

\* C17: after merge_json_chunks of a non-empty list of chunks, a list of one
\* chunk included, every block's index field equals its position in the
\* merged array: the indices are 0..N-1.  (Stated for chunks whose blocks
\* all are objects that carry an index.)
C17_IndicesSequential ==
    (MergeDone("json") /\ mg_in.chunks # <<>> /\ AllIndexedObjects(mg_in.chunks)) =>
        LET merged == Loads(mg_out.combined_text)
        IN  /\ mg_pc = "returned"
            /\ merged.kind = "value"
            /\ IsList(merged.val)
            /\ \A i \in 1..Len(merged.val.array) : merged.val.array[i].index = i - 1

\* Chunk k's payload is not what the merge expects: a JSON array for a JSON
\* merge, JSON for a combined merge.
MalformedPayload(k) ==
    LET parsed == Loads(mg_in.chunks[k])
    IN  \/ parsed.kind # "value"
        \/ mg_in.mode = "json" /\ ~IsList(parsed.val)

\* C18: in a JSON or combined merge, every chunk payload that is not valid
\* is replaced by an explicit error block in the merged block list, the
\* other chunks are merged, and the merge does not raise.
C18_MalformedPayloadReplaced ==
    (MergeDone("json") \/ MergeDone("combined")) =>
        /\ mg_pc = "returned"
        /\ LET text == IF mg_in.mode = "json" THEN mg_out.combined_text
                       ELSE mg_out.structured
               merged == Loads(text)
           IN  \A k \in 1..Len(mg_in.chunks) :
                   MalformedPayload(k) =>
                       /\ merged.kind = "value"
                       /\ IsList(merged.val)
                       /\ \E i \in 1..Len(merged.val.array) :
                            LET block == merged.val.array[i]
                            IN  /\ IsDict(block)
                                /\ "error" \in DOMAIN block
                                /\ "chunk_index" \in DOMAIN block
                                /\ block.chunk_index = k - 1

(***************************************************************************)
(* Properties of the extraction strategies' post_process (SpecPost).       *)
(***************************************************************************)
PostDone(strategy) == ps_pc \in {"returned", "raised"} /\ ps_in.strategy = strategy

\* An object with the four fields of a block.
IsCompleteBlock(block) ==
    IsDict(block) /\ {"content", "index", "tags", "type"} \subseteq DOMAIN block

\* The contents of the blocks that have one, in order.
RECURSIVE ContentsOf(_)
ContentsOf(blocks) ==
    IF blocks = <<>> THEN <<>>
    ELSE (IF HasContent(Head(blocks)) THEN <<Head(blocks).content>> ELSE <<>>)
         \o ContentsOf(Tail(blocks))

\* C19: for every response, the structured post_process returns, without
\* raising, a JSON array whose blocks all have content, index, tags and
\* type; when the response (its code fence removed) parses, the blocks are
\* those of the response that have a content, in order; when it does not,
\* the array is one error block that carries the response cut to
\* RawResponseLimit characters and the parse error message.
C19_StructuredAlwaysValidArray ==
    PostDone("structured") =>
        /\ ps_pc = "returned"
        /\ LET out == Loads(ps_out)
               cleaned == CleanedResponse(ps_in.response)
               parsed == Loads(cleaned)
           IN  /\ out.kind = "value"
               /\ IsList(out.val)
               /\ \A k \in 1..Len(out.val.array) : IsCompleteBlock(out.val.array[k])
               /\ IF parsed.kind = "value"
                  THEN /\ \A k \in 1..Len(out.val.array) :
                            "error" \notin DOMAIN out.val.array[k]
                       /\ ContentsOf(out.val.array)
                            = ContentsOf(IF IsList(parsed.val) THEN parsed.val.array
                                         ELSE <<parsed.val>>)
                  ELSE /\ Len(out.val.array) = 1
                       /\ "error" \in DOMAIN out.val.array[1]
                       /\ out.val.array[1].content = "JSON parsing failed"
                       /\ out.val.array[1].raw_response = Prefix(cleaned, RawResponseLimit)

HasMarker(text, marker) == FirstMarker(text, marker) # 0

\* The text between the first ---JSON--- and the ---END--- after it (the
\* end of the text when there is none).
JsonSegment(response) ==
    LET rest == SubSeq(response, FirstMarker(response, JsonMarker) + 1, Len(response))
        e == FirstMarker(rest, EndMarker)
    IN  SubSeq(rest, 1, IF e = 0 THEN Len(rest) ELSE e - 1)

\* The error object of the combined post_process.
IsErrorObject(out) ==
    /\ Len(out) = 1
    /\ out[1].tok = "lit"
    /\ {"error", "message", "raw_response"} \subseteq DOMAIN out[1].val

\* The payload with both formats.
IsCombinedPayload(out) ==
    /\ Len(out) = 1
    /\ out[1].tok = "lit"
    /\ {"markdown", "structured"} \subseteq DOMAIN out[1].val

\* C20: for every response, the combined post_process never raises; it
\* returns the error object whenever one of the markers ---MARKDOWN---,
\* ---JSON---, ---END--- is missing or the JSON segment does not parse, and
\* the payload with markdown and structured otherwise.
C20_CombinedErrorOrPayload ==
    PostDone("combined") =>
        /\ ps_pc = "returned"
        /\ IsErrorObject(ps_out) \/ IsCombinedPayload(ps_out)
        /\ (\/ ~HasMarker(ps_in.response, MarkdownMarker)
            \/ ~HasMarker(ps_in.response, JsonMarker)
            \/ ~HasMarker(ps_in.response, EndMarker)
            \/ Loads(TokStrip(JsonSegment(ps_in.response))).kind # "value")
           => IsErrorObject(ps_out)

(***************************************************************************)
(* Properties of get_model_context_limit (SpecLimit).                      *)
(***************************************************************************)
\* The limit C21 gives for a model id: the cached value; else the value of
\* the live query when it returned one; else the table's entry for the id;
\* else the first entry of the table of which the id is a part or which is
\* a part of the id; else 128000.
PriorityLimit(manager, model_id, live) ==
    LET table == MODEL_CONTEXT_LIMITS
        matches == {k \in 1..Len(table) :
                       \/ IsSubstring(table[k].id, model_id)
                       \/ IsSubstring(model_id, table[k].id)}
    IN  IF model_id \in DOMAIN manager.cache THEN manager.cache[model_id]
        ELSE IF live.kind = "found" /\ live.context_length > 0 THEN live.context_length
        ELSE IF \E k \in 1..Len(table) : table[k].id = model_id
        THEN table[CHOOSE k \in 1..Len(table) : table[k].id = model_id].limit
        ELSE IF matches # {}
        THEN table[CHOOSE k \in matches : \A j \in matches : k <= j].limit
        ELSE 128000

\* C21: every get_model_context_limit call returns (it never raises) the
\* limit of the priority cache, live query, table, first substring match,
\* 128000; a live query that fails, times out or finds nothing falls
\* through to the table.
C21_ResolutionPriority ==
    [][tm_calls' # tm_calls =>
         LET c == tm_calls'[Len(tm_calls')]
             manager == tm_caches[c.manager]
         IN  /\ tm_calls' = Append(tm_calls, c)
             /\ c.result.queried = (manager.api_key /\ c.model_id \notin DOMAIN manager.cache)
             /\ c.result.limit = PriorityLimit(manager, c.model_id, c.live)]_vars

\* C21 case: a live query timed out and the call fell through to a
\* substring match of an id that several entries of the table match with
\* different limits, and a later call of the same manager read the cache.
C21_Witness ==
    \E i, j \in 1..Len(tm_calls) :
        /\ i < j
        /\ tm_calls[i].manager = tm_calls[j].manager
        /\ tm_calls[i].model_id = FamilyId
        /\ tm_calls[j].model_id = FamilyId
        /\ tm_calls[i].live.kind = "timeout"
        /\ tm_calls[i].result.source = "fuzzy"
        /\ tm_calls[j].result.source = "cache"
        /\ tm_calls[j].result.limit = tm_calls[i].result.limit

\* C22: the cache is shared by the requests of the process: a model id is
\* written to a cache at most once, and after the first resolution of a
\* model id every later resolution, by any request's TokenManager, reads
\* the cache and makes no live query and no cache write.
C22_CacheWrittenOncePerModel ==
    /\ \A m \in ModelIds : tm_writes[m] <= 1
    /\ \A i, j \in 1..Len(tm_calls) :
         (i < j /\ tm_calls[i].model_id = tm_calls[j].model_id) =>
            /\ tm_calls[j].result.source = "cache"
            /\ ~tm_calls[j].result.queried
            /\ ~tm_calls[j].result.wrote

\* The call reaches WordChunkingStrategy.chunk: the text does not fit in one
\* chunk, step 2 does not raise, and the paragraph and the sentence strategy
\* both return None.
ReachesWordStrategy(text, max_tokens, ov) ==
    /\ ~FitsInOneChunk(count_tokens(text), max_tokens)
    /\ ~PreallocationRaises(count_tokens(text), max_tokens)
    /\ Len(ParagraphChunk(text, TargetTokensPerChunk(count_tokens(text), max_tokens), ov)) <= 1
    /\ Len(SentenceChunk(text, TargetTokensPerChunk(count_tokens(text), max_tokens), ov)) <= 1

CallTarget == TargetTokensPerChunk(count_tokens(ck_text), ck_max_tokens)

\* C23: whenever the word strategy is run with a target_tokens_per_chunk of
\* at least 1 and an overlap below 1, its loop advances and the call ends.
C23_WordStrategyTerminates ==
    (/\ ck_pc # "call"
     /\ ReachesWordStrategy(ck_text, ck_max_tokens, ck_overlap)
     /\ CallTarget >= 1
     /\ ck_overlap < 100) =>
        /\ ~WordDiverges(ck_text, CallTarget, ck_overlap)
        /\ ck_pc # "hung"

\* C24: a split that the paragraph or the sentence strategy produced, with
\* finer strategies still untried, has every chunk within max_tokens.
C24_CascadeUntilWithinBudget ==
    (/\ IsSplit
     /\ ck_max_tokens >= 1
     /\ ck_metadata.strategy \in {"ParagraphChunkingStrategy", "SentenceChunkingStrategy"}) =>
        \A i \in 1..Len(ck_chunks) : ChunkTokens(i) <= ck_max_tokens

\* C25: when the call goes through the strategies and none of them yields
\* more than one chunk, it returns the one chunk that is the text itself,
\* marked "fallback_single", and lists it as oversized.
C25_SingleChunkFallback ==
    (/\ IsSplit
     /\ Len(ck_chunks) <= 1) =>
        /\ ck_chunks = <<ck_text>>
        /\ ck_metadata.strategy = "fallback_single"
        /\ ck_metadata.oversized_chunks = <<<<1, count_tokens(ck_text)>>>>

\* The number of units carried out of a closed chunk of n units.
CarriedUnits(n, ov) == IntTrunc(n * ov, 100)

\* Chunk k + 1 starts with the last CarriedUnits units of chunk k, followed by
\* the first unit the loop had not read when it closed chunk k.
CarriesForward(chunkUnits, k, ov) ==
    LET closed == chunkUnits[k]
        next == chunkUnits[k + 1]
        n == Len(closed)
        c == CarriedUnits(n, ov)
    IN  /\ Len(next) >= c + 1
        /\ \A j \in 1..c : next[j] = closed[n - c + j]
        /\ next[c + 1] = closed[n] + 1

\* Every unit is in exactly one chunk, once.
EachUnitOnce(chunkUnits, unit_count) ==
    \A u \in 1..unit_count :
        Cardinality({<<k, j>> \in (1..Len(chunkUnits)) \X (1..unit_count) :
                        j <= Len(chunkUnits[k]) /\ chunkUnits[k][j] = u}) = 1

OverlapRule(units, chunkUnits, sep) ==
    /\ ck_chunks = JoinChunks(units, chunkUnits, sep)
    /\ \A k \in 1..(Len(chunkUnits) - 1) : CarriesForward(chunkUnits, k, ck_overlap)
    /\ (ck_overlap = 0) => EachUnitOnce(chunkUnits, Len(units))

\* C26: in a split made by the paragraph or the sentence strategy, each
\* chunk after a closed chunk of n units starts with exactly the last
\* floor(n * overlap_percentage) units of that chunk followed by the next
\* unread unit; with overlap 0 nothing is carried and every unit is in
\* exactly one chunk.
C26_OverlapCarriedForward ==
    (/\ IsSplit
     /\ ck_metadata.strategy \in {"ParagraphChunkingStrategy", "SentenceChunkingStrategy"}) =>
        IF ck_metadata.strategy = "ParagraphChunkingStrategy"
        THEN OverlapRule(SplitParagraphs(ck_text),
                         ParagraphChunkUnits(ck_text, CallTarget, ck_overlap), <<NL, NL>>)
        ELSE OverlapRule(SplitSentences(ck_text),
                         SentenceChunkUnits(ck_text, CallTarget, ck_overlap), <<DOT, SP>>)

\* C26 case: the sentence strategy closed a chunk of two or more sentences
\* under an overlap of one half, so the next chunk starts with the carried
\* last sentence, which is not the closed chunk's first.
C26_Witness ==
    /\ IsSplit
    /\ ck_metadata.strategy = "SentenceChunkingStrategy"
    /\ ck_overlap = 50
    /\ \E k \in 1..(Len(SentenceChunkUnits(ck_text, CallTarget, ck_overlap)) - 1) :
          Len(SentenceChunkUnits(ck_text, CallTarget, ck_overlap)[k]) >= 2

(***************************************************************************)
(* Properties of convert_to_markdown (SpecConvert).                        *)
(***************************************************************************)
ConvertEnded == cv_pc \in {"returned", "raised"}

\* The remote conversion was attempted and failed.
RemoteFailed == RemoteAttempts > 0 /\ cv_error # NoneVal

\* The converters tried after the remote attempts.
LocalTried == SubSeq(cv_tried, RemoteAttempts + 1, Len(cv_tried))

\* C27: a convert_to_markdown call whose remote conversion failed does not
\* raise: it has tried trafilatura and then, at most, html2text, and returns
\* (fallback output, used_ai = False, an error message that is not None).
C27_NeverRaisesOnRemoteFailure ==
    (ConvertEnded /\ RemoteFailed) =>
        /\ cv_pc = "returned"
        /\ LocalTried \in {<<"trafilatura">>, <<"trafilatura", "html2text">>}
        /\ cv_out.used_ai = FALSE
        /\ cv_out.error # NoneVal

\* The call of process_func for chunk p has ended and its future is done.
RanToCompletion(p) == pp_pc # "call" /\ p \in Done

\* The call of process_func for chunk p is the one that never ends.
NeverEnds(p) == pp_pc # "call" /\ p \in Stuck

\* C28 as stated: whatever the worker count, with one chunk's process_func
\* stuck every other chunk is still dispatched and runs to completion.
C28_OthersCompleteAnyWorkers ==
    \A p \in 1..MaxChunks :
        (pp_pc = "collect" /\ p \in Positions) ~> (RanToCompletion(p) \/ NeverEnds(p))

\* C28 amended: with at least two workers, one chunk's process_func being
\* stuck does not keep any other chunk from being dispatched and running to
\* completion.
C28_OthersCompleteTwoWorkers ==
    \A p \in 1..MaxChunks :
        (pp_pc = "collect" /\ p \in Positions /\ pp_workers >= 2)
            ~> (RanToCompletion(p) \/ NeverEnds(p))

\* C28 case: the first chunk is stuck in a pool of two workers and every
\* other chunk, dispatched after it, has been run and collected.
C28_Witness ==
    /\ pp_pc = "collect"
    /\ pp_workers >= 2
    /\ Len(pp_chunks) >= 3
    /\ Stuck = {1}
    /\ pp_yielded = Positions \ {1}

(***************************************************************************)
(* Properties of the chunk requests (SpecPrompt).                          *)
(***************************************************************************)
\* C29: the messages posted for chunk i are the {system, user} prompt the
\* selected extraction strategy's build_prompt produced for chunk i.
C29_RequestBuiltFromStrategyPrompt ==
    \A c \in cl_calls : c.request = c.prompts

(***************************************************************************)
(* Properties of the chunked path of convert_large_html (Spec), by the     *)
(* outcome of each chunk's convert_to_markdown call.                       *)
(***************************************************************************)
\* The convert_to_markdown outcome of chunk k (from 1): convert_to_markdown
\* is called once for each chunk.
ConvOf(k) == (CHOOSE c \in cl_calls : c.kind = "chunk" /\ c.index = k - 1).conv

ReportedNoError(k) == ConvOf(k).kind # "raise" /\ ConvOf(k).error = NoneVal

\* The post-processed outputs of the chunks from k on whose
\* convert_to_markdown call reported no error, the empty ones left out.
RECURSIVE OutputsWithoutError(_, _)
OutputsWithoutError(k, n) ==
    IF k > n THEN <<>>
    ELSE (IF ReportedNoError(k) /\ PostProcessMarkdown(ConvOf(k).md) # <<>>
          THEN <<PostProcessMarkdown(ConvOf(k).md)>> ELSE <<>>)
         \o OutputsWithoutError(k + 1, n)

ChunkedPathReturned == cl_pc = "returned" /\ pp_pc = "returned"

\* C30: on the chunked path the merged document is made of the outputs of
\* exactly the chunks whose convert_to_markdown call reported no error; a
\* chunk whose call came back with an error and a local fallback text is a
\* failed result without output, and when every chunk's call reported an
\* error the result is the all-chunks-failed error.
C30_OnlyErrorFreeChunksMerged ==
    ChunkedPathReturned =>
        LET n == Len(pp_chunks)
            results == pp_return.results
            clean == OutputsWithoutError(1, n)
        IN  /\ \A k \in 1..n :
                 ~ReportedNoError(k) =>
                    /\ ~results[k].success
                    /\ results[k].output = NoneText
                    /\ results[k].error = ConvOf(k).error
            /\ clean # <<>> =>
                 cl_ret.content = MergeMarkdownChunks(clean, cl_in.overlap).combined_text
            /\ (\A k \in 1..n : ~ReportedNoError(k)) =>
                 cl_ret = [content |-> <<>>, used_ai |-> FALSE, error |-> AllChunksFailed]

\* C30 case: every chunk's convert_to_markdown call fell back to a local
\* extractor that produced a text, and the call returned.
C30_Witness ==
    /\ ChunkedPathReturned
    /\ Len(pp_chunks) >= 2
    /\ \A k \in 1..Len(pp_chunks) :
          ConvOf(k).kind = "fallback" /\ ConvOf(k).md = <<"a">>
    /\ cl_ret.error = AllChunksFailed

====
